---------------------------- MODULE Spec2Model ----------------------------
(***************************************************************************)
(* The pool allocators of dv1580_a2 as state machines over a word-addressed *)
(* memory.  The repository holds several variants of memory_manager.c; each *)
(* variant is one specification of this module, all over the same state:    *)
(*                                                                          *)
(*   SpecCo   src/memory_manager.c 1-134       colocated headers, ALIGN     *)
(*   SpecMx   src/unnamed/part_001 1-135       colocated headers, mutex     *)
(*   SpecSm   src/unnamed/part_002             separate header pool         *)
(*                                                                          *)
(* Memory is a function from mapped 8-byte-aligned addresses to words.  A   *)
(* Block header is three words (size_of_block, is_free, next_block), four   *)
(* with the data field of the header-pool variants.  Two headers written at *)
(* overlapping addresses alias word by word, as they do in the pool.        *)
(***************************************************************************)
EXTENDS Integers, FiniteSets, Sequences, TLC

VARIABLES mem,          \* the contents of the malloc'd pools: address -> word
          memory_pool,  \* static char *memory_pool
          header_pool,  \* static char *header_pool (0 in the colocated variants)
          free_list,    \* static Block *free_list
          capacity,     \* the size the pool was malloc'd with
          live,         \* the caller's allocations: [p, n] returned and not freed
          stale,        \* the pointer the caller freed last (0: none)
          status,       \* "ok", or how the last call failed to return
          last,         \* the last call: [op, p, n, ret]
          calls,        \* the number of calls made since mem_init
          memory_lock,  \* static pthread_mutex_t memory_lock ("none": the variant has none)
          trip,         \* the calls made so far, while they are the calls of Trip
          threads       \* each thread's position in the call it makes (<<>>: one caller)

vars == <<mem, memory_pool, header_pool, free_list, capacity, live, stale, status,
          last, calls, memory_lock, trip, threads>>

-----------------------------------------------------------------------------
(* Bounds of the model *)

\* pools of MinPoolWords..MaxPoolWords words are initialised
MinPoolWords == 11
MaxPoolWords == 11
\* requests of 0 bytes, 1 byte and 1..MaxReqWords words
MaxReqWords == 2
\* the caller makes at most MaxCalls calls after mem_init
MaxCalls == 7
\* the header-pool variant is given pools of three times MinThirdWords..MaxThirdWords words
MinThirdWords == 5
MaxThirdWords == 5
\* a pool that holds two blocks and a free rest, and a request of most of it
WidePoolWords == 17
WideReqWords == 7
\* the list is initialised for MaxNodes nodes, holds data 1 .. MaxData, and its
\* caller makes at most MaxListCalls calls after list_init
MaxNodes == 3
MaxData == 2
MaxListCalls == 3
\* NumThreads threads call the allocator, MaxThreadCalls calls between them
NumThreads == 2
MaxThreadCalls == 3

-----------------------------------------------------------------------------
(* Words, pointers and the Block layout *)

\* sizeof(void*): the alignment unit of ALIGN and the width of a word
PtrSize == 8

NULL == 0

\* An int is the low half of a word.  HalfRange stands for 2^32: every size
\* and offset of the bounded model is far below it, so a word's low half is
\* word % HalfRange and its high half word \div HalfRange.
HalfRange == 256 * 256

\* Where malloc placed the pool: some address with a non-zero high half.
PoolBase == HalfRange + 4096

\* A word malloc never initialised.  A word whose low half was written as an
\* int v while its high half is still uninitialised is -(v + 2).
Uninit == 0 - 1

\* sizeof(Block) of the colocated variants: size_t, int (padded), Block*
SizeofBlock == 3 * PtrSize

OffSize == 0 * PtrSize
OffFree == PtrSize
OffNext == 2 * PtrSize

\* the Block of the header-pool variants has a fourth field, char *data
OffData == 3 * PtrSize
SizeofBlockData == 4 * PtrSize

\* where malloc placed the header pool: apart from the data pool
HeaderBase == PoolBase + 4096

ALIGN(size) == ((size + (PtrSize - 1)) \div PtrSize) * PtrSize

Mapped(m, a) == a \in DOMAIN m

\* reads of a header field; the Ok* predicates say the read is defined
OkSize(m, b) == Mapped(m, b + OffSize) /\ m[b + OffSize] >= 0
RdSize(m, b) == IF OkSize(m, b) THEN m[b + OffSize] ELSE 0

OkFree(m, b) == Mapped(m, b + OffFree) /\ m[b + OffFree] # Uninit
RdFree(m, b) ==
    IF ~OkFree(m, b) THEN 0
    ELSE IF m[b + OffFree] >= 0 THEN m[b + OffFree] % HalfRange
    ELSE -(m[b + OffFree]) - 2

OkNext(m, b) == Mapped(m, b + OffNext) /\ m[b + OffNext] >= 0
RdNext(m, b) == IF OkNext(m, b) THEN m[b + OffNext] ELSE NULL

\* writes of a header field; a write outside the pool is caught by HdrMapped
WrSize(m, b, v) == IF Mapped(m, b + OffSize) THEN [m EXCEPT ![b + OffSize] = v] ELSE m
WrFree(m, b, v) ==
    IF Mapped(m, b + OffFree)
    THEN [m EXCEPT ![b + OffFree] =
              IF @ >= 0 THEN (@ \div HalfRange) * HalfRange + v ELSE -(v + 2)]
    ELSE m
WrNext(m, b, v) == IF Mapped(m, b + OffNext) THEN [m EXCEPT ![b + OffNext] = v] ELSE m

OkData(m, b) == Mapped(m, b + OffData) /\ m[b + OffData] >= 0
RdData(m, b) == IF OkData(m, b) THEN m[b + OffData] ELSE NULL
WrData(m, b, v) == IF Mapped(m, b + OffData) THEN [m EXCEPT ![b + OffData] = v] ELSE m

HdrMapped(m, b) ==
    /\ Mapped(m, b + OffSize)
    /\ Mapped(m, b + OffFree)
    /\ Mapped(m, b + OffNext)

HdrDataMapped(m, b) == HdrMapped(m, b) /\ Mapped(m, b + OffData)

\* the words of a pool of `bytes` bytes at `base`
PoolAddrs(base, bytes) == {base + PtrSize * k : k \in 0 .. (bytes \div PtrSize) - 1}

\* results of a call: how it ended, the memory and list head it left, its value
Ret(m, fl, r) == [st |-> "ok", m |-> m, fl |-> fl, ret |-> r]
Fail(s, m, fl) == [st |-> s, m |-> m, fl |-> fl, ret |-> NULL]

-----------------------------------------------------------------------------
(* The colocated allocator: src/memory_manager.c lines 1-134 *)

\* the split threshold of mem_alloc: "size + 8"
SplitSlack == 8

\* mem_init: the pool is ALIGN(size) bytes, one free block spans it
\* mem_init as it would be if the first block were given all of the pool
mem_init_co_whole(size) ==
    LET bytes == ALIGN(size)
        m0 == [a \in PoolAddrs(PoolBase, bytes) |-> Uninit]
        m1 == WrSize(m0, PoolBase, bytes)
        m2 == WrFree(m1, PoolBase, 1)
        m3 == WrNext(m2, PoolBase, NULL)
    IN  [m |-> m3, pool |-> PoolBase, fl |-> PoolBase, cap |-> bytes]

\* lines 9-24: the pool is ALIGN(size) bytes, one free block with the rest after its header
mem_init_co(size) ==
    LET bytes == ALIGN(size)
        m0 == [a \in PoolAddrs(PoolBase, bytes) |-> Uninit]
        m1 == WrSize(m0, PoolBase, bytes - SizeofBlock)
        m2 == WrFree(m1, PoolBase, 1)
        m3 == WrNext(m2, PoolBase, NULL)
    IN  [m |-> m3, pool |-> PoolBase, fl |-> PoolBase, cap |-> bytes]

\* the while loop of mem_alloc: the first block that is free and large enough.
\* The loop changes no memory, so reaching a block a second time means it never ends.
RECURSIVE scan_co(_, _, _, _)
scan_co(m, cur, size, seen) ==
    IF cur = NULL THEN [k |-> "none", b |-> NULL]
    ELSE IF cur \in seen THEN [k |-> "hang", b |-> cur]
    ELSE IF ~OkFree(m, cur) THEN [k |-> "ub", b |-> cur]
    ELSE IF RdFree(m, cur) # 0 /\ ~OkSize(m, cur) THEN [k |-> "ub", b |-> cur]
    ELSE IF RdFree(m, cur) # 0 /\ RdSize(m, cur) >= size THEN [k |-> "found", b |-> cur]
    ELSE IF ~OkNext(m, cur) THEN [k |-> "ub", b |-> cur]
    ELSE scan_co(m, RdNext(m, cur), size, seen \cup {cur})

\* the size a split gives the new block (line 42)
split_size_co(block_size, size) == block_size - size

\* whether mem_alloc splits the block it found (line 38)
splits_co(block_size, size) == block_size >= size + SplitSlack

\* lines 38-52: split the found block when the rest is large enough, mark it allocated
take_co(m, fl, cur, size) ==
    LET split == splits_co(RdSize(m, cur), size)
        nb == cur + SizeofBlock + size
        m1 == WrSize(m, nb, split_size_co(RdSize(m, cur), size))
        m2 == WrFree(m1, nb, 1)
        m3 == WrNext(m2, nb, RdNext(m2, cur))
        m4 == WrSize(m3, cur, size)
        m5 == WrNext(m4, cur, nb)
        m6 == IF split THEN m5 ELSE m
        m7 == WrFree(m6, cur, 0)
    IN  IF split /\ (~HdrMapped(m, nb) \/ ~OkNext(m2, cur))
        THEN Fail("ub", m, fl)
        ELSE Ret(m7, fl, cur + SizeofBlock)

mem_alloc_co(m, fl, n) ==
    IF n = 0 THEN Ret(m, fl, NULL)
    ELSE LET size == ALIGN(n)
             f == scan_co(m, fl, size, {})
         IN  CASE f.k = "none" -> Ret(m, fl, NULL)
               [] f.k = "hang" -> Fail("hung", m, fl)
               [] f.k = "ub" -> Fail("ub", m, fl)
               [] f.k = "found" -> take_co(m, fl, f.b, size)

\* lines 90-93 of mem_free: stop at the block whose successor is not below
\* block_to_free; NULL compares below every block
RECURSIVE walk_co(_, _, _, _)
walk_co(m, cur, btf, seen) ==
    IF cur = NULL THEN [k |-> "end", b |-> NULL]
    ELSE IF cur \in seen THEN [k |-> "hang", b |-> cur]
    ELSE IF ~OkNext(m, cur) THEN [k |-> "ub", b |-> cur]
    ELSE IF RdNext(m, cur) < btf THEN walk_co(m, RdNext(m, cur), btf, seen \cup {cur})
    ELSE [k |-> "end", b |-> cur]

\* lines 74-79: merge block_to_free with its successor when that one is free
merge_next_co(m, btf) ==
    LET nb == RdNext(m, btf)
        m1 == WrSize(m, btf, RdSize(m, btf) + SizeofBlock + RdSize(m, nb))
        m2 == WrNext(m1, btf, RdNext(m1, nb))
    IN  IF ~OkNext(m, btf) THEN [bad |-> TRUE, m |-> m]
        ELSE IF nb = NULL THEN [bad |-> FALSE, m |-> m]
        ELSE IF ~OkFree(m, nb) THEN [bad |-> TRUE, m |-> m]
        ELSE IF RdFree(m, nb) = 0 THEN [bad |-> FALSE, m |-> m]
        ELSE IF ~OkSize(m, btf) \/ ~OkSize(m, nb) \/ ~OkNext(m1, nb)
             THEN [bad |-> TRUE, m |-> m]
        ELSE [bad |-> FALSE, m |-> m2]

\* lines 100-106: merge block_to_free into current_block when that one is free
\* and ends where block_to_free starts
merge_prev_co(m, fl, cur, btf) ==
    LET m1 == WrSize(m, cur, RdSize(m, cur) + SizeofBlock + RdSize(m, btf))
        m2 == WrNext(m1, cur, RdNext(m1, btf))
    IN  IF cur = NULL THEN Ret(m, fl, NULL)
        ELSE IF ~OkFree(m, cur) THEN Fail("ub", m, fl)
        ELSE IF RdFree(m, cur) = 0 THEN Ret(m, fl, NULL)
        ELSE IF ~OkSize(m, cur) THEN Fail("ub", m, fl)
        ELSE IF cur + SizeofBlock + RdSize(m, cur) # btf THEN Ret(m, fl, NULL)
        ELSE IF ~OkSize(m, btf) \/ ~OkNext(m1, btf) \/ ~HdrMapped(m, cur)
             THEN Fail("ub", m, fl)
        ELSE Ret(m2, fl, NULL)

\* lines 81-98: put block_to_free into the list
insert_co(m, fl, btf) ==
    IF btf < fl
    THEN [st |-> "ok", m |-> WrNext(m, btf, fl), fl |-> btf, cur |-> fl]
    ELSE LET w == walk_co(m, fl, btf, {})
             m1 == WrNext(m, btf, RdNext(m, w.b))
             m2 == WrNext(m1, w.b, btf)
         IN  CASE w.k = "hang" -> [st |-> "hung", m |-> m, fl |-> fl, cur |-> NULL]
               [] w.k = "ub" -> [st |-> "ub", m |-> m, fl |-> fl, cur |-> NULL]
               [] w.k = "end" /\ w.b = NULL ->
                      [st |-> "null_deref", m |-> m, fl |-> fl, cur |-> NULL]
               [] OTHER -> [st |-> "ok", m |-> m2, fl |-> fl, cur |-> w.b]

mem_free_co(m, fl, block) ==
    IF block = NULL THEN Ret(m, fl, NULL)
    ELSE LET btf == block - SizeofBlock
         IN  IF ~OkFree(m, btf) THEN Fail("ub", m, fl)
             ELSE IF RdFree(m, btf) # 0 THEN Ret(m, fl, NULL)
             ELSE IF ~HdrMapped(m, btf) THEN Fail("ub", m, fl)
             ELSE LET m1 == WrFree(m, btf, 1)
                      mn == merge_next_co(m1, btf)
                      ins == insert_co(mn.m, fl, btf)
                  IN  IF mn.bad THEN Fail("ub", m, fl)
                      ELSE IF ins.st # "ok" THEN Fail(ins.st, m, fl)
                      ELSE merge_prev_co(ins.m, ins.fl, ins.cur, btf)

\* memcpy(dst, src, bytes), word by word; copying between overlapping ranges,
\* or outside the pool, is undefined.  The memory is word-granular: a copy whose
\* length is no whole number of words ends the call as "partial", and the
\* caller's step that would make it is not taken (Leave).
Words(a, bytes) == {a + PtrSize * k : k \in 0 .. ((bytes + PtrSize - 1) \div PtrSize) - 1}

OkCopy(m, dst, src, bytes) ==
    /\ Words(dst, bytes) \subseteq DOMAIN m
    /\ Words(src, bytes) \subseteq DOMAIN m
    /\ Words(dst, bytes) \cap Words(src, bytes) = {}

memcpy(m, dst, src, bytes) ==
    [a \in DOMAIN m |->
        IF a \in Words(dst, bytes) /\ Mapped(m, src + (a - dst))
        THEN m[src + (a - dst)] ELSE m[a]]

\* line 116: the block is already large enough
\* the test of line 116 as it would be if a block of exactly the size did not do
fits_co_strict(block_size, size) == block_size > size

\* line 116: the block already holds the aligned size
fits_co(block_size, size) == block_size >= size

mem_resize_co(m, fl, block, n) ==
    IF block = NULL THEN mem_alloc_co(m, fl, n)
    ELSE LET size == ALIGN(n)
             old_block == block - SizeofBlock
         IN  IF ~OkSize(m, old_block) THEN Fail("ub", m, fl)
             ELSE IF fits_co(RdSize(m, old_block), size) THEN Ret(m, fl, block)
             ELSE LET a == mem_alloc_co(m, fl, size)
                      m1 == memcpy(a.m, a.ret, block, RdSize(a.m, old_block))
                      f == mem_free_co(m1, a.fl, block)
                  IN  IF a.st # "ok" THEN Fail(a.st, m, fl)
                      ELSE IF a.ret = NULL THEN Ret(a.m, a.fl, NULL)
                      ELSE IF ~OkSize(a.m, old_block) THEN Fail("ub", m, fl)
                      ELSE IF RdSize(a.m, old_block) % PtrSize # 0
                           THEN Fail("partial", m, fl)
                      ELSE IF ~OkCopy(a.m, a.ret, block, RdSize(a.m, old_block))
                           THEN Fail("ub", m, fl)
                      ELSE IF f.st # "ok" THEN Fail(f.st, m, fl)
                      ELSE Ret(f.m, f.fl, a.ret)

-----------------------------------------------------------------------------
(* The mutex-protected colocated allocator: src/unnamed/part_001 lines 1-135. *)
(* Every call below runs between pthread_mutex_lock and pthread_mutex_unlock; *)
(* a call that locks memory_lock while it holds it (the default mutex is not  *)
(* recursive) never returns: "deadlock".                                      *)

\* mem_init: the pool is `size` bytes; the first block is given all of them
mem_init_mx(size) ==
    LET m0 == [a \in PoolAddrs(PoolBase, size) |-> Uninit]
        m1 == WrSize(m0, PoolBase, size)
        m2 == WrFree(m1, PoolBase, 1)
        m3 == WrNext(m2, PoolBase, NULL)
    IN  [m |-> m3, pool |-> PoolBase, fl |-> PoolBase, cap |-> size]

\* line 42: a block fits when it is free and holds the request and one more header
RECURSIVE scan_mx(_, _, _, _)
scan_mx(m, cur, size, seen) ==
    IF cur = NULL THEN [k |-> "none", b |-> NULL]
    ELSE IF cur \in seen THEN [k |-> "hang", b |-> cur]
    ELSE IF ~OkFree(m, cur) THEN [k |-> "ub", b |-> cur]
    ELSE IF RdFree(m, cur) # 0 /\ ~OkSize(m, cur) THEN [k |-> "ub", b |-> cur]
    ELSE IF RdFree(m, cur) # 0 /\ RdSize(m, cur) >= size + SizeofBlock
         THEN [k |-> "found", b |-> cur]
    ELSE IF ~OkNext(m, cur) THEN [k |-> "ub", b |-> cur]
    ELSE scan_mx(m, RdNext(m, cur), size, seen \cup {cur})

\* lines 45-58: split when the block is larger than the request, mark it allocated
take_mx(m, fl, cur, size) ==
    LET split == RdSize(m, cur) > size
        nb == cur + SizeofBlock + size
        m1 == WrSize(m, nb, RdSize(m, cur) - size)
        m2 == WrFree(m1, nb, 1)
        m3 == WrNext(m2, nb, RdNext(m2, cur))
        m4 == WrSize(m3, cur, size)
        m5 == WrNext(m4, cur, nb)
        m6 == IF split THEN m5 ELSE m
        m7 == WrFree(m6, cur, 0)
    IN  IF split /\ (~HdrMapped(m, nb) \/ ~OkNext(m2, cur))
        THEN Fail("ub", m, fl)
        ELSE Ret(m7, fl, cur + SizeofBlock)

mem_alloc_mx(m, fl, size) ==
    IF size = 0 THEN Ret(m, fl, NULL)
    ELSE LET f == scan_mx(m, fl, size, {})
         IN  CASE f.k = "none" -> Ret(m, fl, NULL)
               [] f.k = "hang" -> Fail("hung", m, fl)
               [] f.k = "ub" -> Fail("ub", m, fl)
               [] f.k = "found" -> take_mx(m, fl, f.b, size)

\* lines 79-88: one pass over the list; a block and its successor that are both
\* free become one, and the pass goes on from the block after them.  `seen` are
\* the blocks passed since memory last changed: meeting one again, or going on
\* for more steps than the pool has words, the pass never ends.
RECURSIVE coalesce_mx(_, _, _, _)
coalesce_mx(m, cur, seen, fuel) ==
    IF cur = NULL THEN [st |-> "ok", m |-> m]
    ELSE IF cur \in seen \/ fuel = 0 THEN [st |-> "hung", m |-> m]
    ELSE IF ~OkNext(m, cur) THEN [st |-> "ub", m |-> m]
    ELSE IF RdNext(m, cur) = NULL THEN [st |-> "ok", m |-> m]
    ELSE IF ~OkFree(m, cur) THEN [st |-> "ub", m |-> m]
    ELSE IF RdFree(m, cur) = 0
         THEN coalesce_mx(m, RdNext(m, cur), seen \cup {cur}, fuel - 1)
    ELSE IF ~OkFree(m, RdNext(m, cur)) THEN [st |-> "ub", m |-> m]
    ELSE IF RdFree(m, RdNext(m, cur)) = 0
         THEN coalesce_mx(m, RdNext(m, cur), seen \cup {cur}, fuel - 1)
    ELSE LET nb == RdNext(m, cur)
             m1 == WrSize(m, cur, RdSize(m, cur) + SizeofBlock + RdSize(m, nb))
             m2 == WrNext(m1, cur, RdNext(m1, nb))
         IN  IF ~OkSize(m, cur) \/ ~OkSize(m, nb) \/ ~OkNext(m1, nb) \/ ~HdrMapped(m, cur)
             THEN [st |-> "ub", m |-> m]
             ELSE coalesce_mx(m2, RdNext(m2, cur), {}, fuel - 1)

\* lines 69-91: mark the block free, then coalesce
mem_free_mx(m, fl, block) ==
    IF block = NULL THEN Ret(m, fl, NULL)
    ELSE LET btf == block - SizeofBlock
             c == coalesce_mx(WrFree(m, btf, 1), fl, {}, Cardinality(DOMAIN m))
         IN  IF ~Mapped(m, btf + OffFree) THEN Fail("ub", m, fl)
             ELSE IF c.st # "ok" THEN Fail(c.st, m, fl)
             ELSE Ret(c.m, fl, NULL)

\* lines 94-122: the calls to mem_alloc at line 113 and mem_free at line 117 are
\* made with memory_lock held, and lock it again
mem_resize_mx(m, fl, block, size) ==
    IF block = NULL THEN mem_alloc_mx(m, fl, size)
    ELSE IF size = 0 THEN mem_free_mx(m, fl, block)
    ELSE LET old_block == block - SizeofBlock
         IN  IF ~OkSize(m, old_block) THEN Fail("ub", m, fl)
             ELSE IF RdSize(m, old_block) >= size THEN Ret(m, fl, block)
             ELSE Fail("deadlock", m, fl)

-----------------------------------------------------------------------------
(* The header-pool allocator: src/unnamed/part_002.  The headers live in     *)
(* header_pool, a second malloc of `size` bytes; a header's data field points *)
(* into memory_pool.                                                          *)

mem_init_sm(size) ==
    LET m0 == [a \in PoolAddrs(PoolBase, size) \cup PoolAddrs(HeaderBase, size) |-> Uninit]
        m1 == WrSize(m0, HeaderBase, size)
        m2 == WrFree(m1, HeaderBase, 1)
        m3 == WrNext(m2, HeaderBase, NULL)
        m4 == WrData(m3, HeaderBase, PoolBase)
    IN  [m |-> m4, pool |-> PoolBase, hdr |-> HeaderBase, fl |-> HeaderBase, cap |-> size]

\* lines 45-61: a request of 0 bytes is answered with the data of the first free block
RECURSIVE first_free_sm(_, _, _, _)
first_free_sm(m, fl, cur, seen) ==
    IF cur = NULL THEN Ret(m, fl, NULL)
    ELSE IF cur \in seen THEN Fail("hung", m, fl)
    ELSE IF ~OkFree(m, cur) THEN Fail("ub", m, fl)
    ELSE IF RdFree(m, cur) # 0
         THEN IF OkData(m, cur) THEN Ret(m, fl, RdData(m, cur)) ELSE Fail("ub", m, fl)
    ELSE IF ~OkNext(m, cur) THEN Fail("ub", m, fl)
    ELSE first_free_sm(m, fl, RdNext(m, cur), seen \cup {cur})

\* lines 67-101: the first block that is free and holds the request
RECURSIVE scan_sm(_, _, _, _, _)
scan_sm(m, cur, prev, size, seen) ==
    IF cur = NULL THEN [k |-> "none", b |-> NULL, prev |-> prev]
    ELSE IF cur \in seen THEN [k |-> "hang", b |-> cur, prev |-> prev]
    ELSE IF ~OkFree(m, cur) THEN [k |-> "ub", b |-> cur, prev |-> prev]
    ELSE IF RdFree(m, cur) # 0 /\ ~OkSize(m, cur) THEN [k |-> "ub", b |-> cur, prev |-> prev]
    ELSE IF RdFree(m, cur) # 0 /\ RdSize(m, cur) >= size
         THEN [k |-> "found", b |-> cur, prev |-> prev]
    ELSE IF ~OkNext(m, cur) THEN [k |-> "ub", b |-> cur, prev |-> prev]
    ELSE scan_sm(m, RdNext(m, cur), cur, size, seen \cup {cur})

\* lines 73-95: split into the header slot after the block's own, mark the block
\* allocated and take it out of the list
take_sm(m, fl, cur, prev, size) ==
    LET split == RdSize(m, cur) > size + SizeofBlockData
        nb == cur + SizeofBlockData
        m1 == WrSize(m, nb, RdSize(m, cur) - size)
        m2 == WrFree(m1, nb, 1)
        m3 == WrNext(m2, nb, RdNext(m2, cur))
        m4 == WrData(m3, nb, RdData(m3, cur) + size)
        m5 == WrSize(m4, cur, size)
        m6 == WrNext(m5, cur, nb)
        m7 == IF split THEN m6 ELSE m
        m8 == WrFree(m7, cur, 0)
        m9 == IF prev # NULL THEN WrNext(m8, prev, RdNext(m8, cur)) ELSE m8
    IN  IF split /\ (~HdrDataMapped(m, nb) \/ ~OkNext(m2, cur) \/ ~OkData(m3, cur))
        THEN Fail("ub", m, fl)
        ELSE IF ~OkNext(m8, cur) \/ ~OkData(m9, cur) THEN Fail("ub", m, fl)
        ELSE Ret(m9, IF prev # NULL THEN fl ELSE RdNext(m8, cur), RdData(m9, cur))

mem_alloc_sm(m, fl, size) ==
    IF size = 0 THEN first_free_sm(m, fl, fl, {})
    ELSE LET f == scan_sm(m, fl, NULL, size, {})
         IN  CASE f.k = "none" -> Ret(m, fl, NULL)
               [] f.k = "hang" -> Fail("hung", m, fl)
               [] f.k = "ub" -> Fail("ub", m, fl)
               [] f.k = "found" -> take_sm(m, fl, f.b, f.prev, size)

\* lines 125-163: the block of the list whose data is `block`
RECURSIVE find_sm(_, _, _, _, _)
find_sm(m, cur, prev, block, seen) ==
    IF cur = NULL THEN [k |-> "none", b |-> NULL, prev |-> prev]
    ELSE IF cur \in seen THEN [k |-> "hang", b |-> cur, prev |-> prev]
    ELSE IF ~OkData(m, cur) THEN [k |-> "ub", b |-> cur, prev |-> prev]
    ELSE IF RdData(m, cur) = block THEN [k |-> "found", b |-> cur, prev |-> prev]
    ELSE IF ~OkNext(m, cur) THEN [k |-> "ub", b |-> cur, prev |-> prev]
    ELSE find_sm(m, RdNext(m, cur), cur, block, seen \cup {cur})

\* lines 135-158: what mem_free does to a block it found allocated
release_sm(m, fl, btf, prev) ==
    LET m1 == WrFree(m, btf, 1)
        nx == RdNext(m1, btf)
        withnext == nx # NULL /\ RdFree(m1, nx) # 0
        m2 == IF withnext
              THEN WrNext(WrSize(m1, btf, RdSize(m1, btf) + SizeofBlockData + RdSize(m1, nx)),
                          btf,
                          RdNext(WrSize(m1, btf, RdSize(m1, btf) + SizeofBlockData
                                                     + RdSize(m1, nx)), nx))
              ELSE m1
        withprev == prev # NULL /\ RdFree(m2, prev) # 0
        m3 == IF withprev
              THEN WrNext(WrSize(m2, prev, RdSize(m2, prev) + SizeofBlockData + RdSize(m2, btf)),
                          prev,
                          RdNext(WrSize(m2, prev, RdSize(m2, prev) + SizeofBlockData
                                                      + RdSize(m2, btf)), btf))
              ELSE WrNext(m2, btf, fl)
    IN  IF \/ ~OkNext(m1, btf)
           \/ (nx # NULL /\ ~OkFree(m1, nx))
           \/ (withnext /\ (~OkSize(m1, btf) \/ ~OkSize(m1, nx) \/ ~OkNext(m1, nx)))
           \/ (prev # NULL /\ ~OkFree(m2, prev))
           \/ (withprev /\ (~OkSize(m2, prev) \/ ~OkSize(m2, btf) \/ ~OkNext(m2, btf)))
        THEN Fail("ub", m, fl)
        ELSE Ret(m3, IF withprev THEN fl ELSE btf, NULL)

mem_free_sm(m, fl, block) ==
    IF block = NULL THEN Ret(m, fl, NULL)
    ELSE LET f == find_sm(m, fl, NULL, block, {})
         IN  CASE f.k = "none" -> Ret(m, fl, NULL)
               [] f.k = "hang" -> Fail("hung", m, fl)
               [] f.k = "ub" -> Fail("ub", m, fl)
               [] f.k = "found" ->
                    IF ~OkFree(m, f.b) THEN Fail("ub", m, fl)
                    ELSE IF RdFree(m, f.b) # 0 THEN Ret(m, fl, NULL)
                    ELSE release_sm(m, fl, f.b, f.prev)

\* lines 177-214: mem_resize locks memory_lock, and every call it makes to
\* mem_alloc or mem_free locks it again; the header it reads is the
\* sizeof(Block) bytes before `block`, in the data pool
mem_resize_sm(m, fl, block, size) ==
    IF block = NULL \/ size = 0 THEN Fail("deadlock", m, fl)
    ELSE LET old_block == block - SizeofBlockData
         IN  IF ~OkSize(m, old_block) THEN Fail("ub", m, fl)
             ELSE IF RdSize(m, old_block) >= size THEN Ret(m, fl, block)
             ELSE Fail("deadlock", m, fl)

\* the exit a call to mem_alloc takes: line 53, 59, 93 or 103
alloc_exit_sm(m, fl, size) ==
    IF size = 0
    THEN IF first_free_sm(m, fl, fl, {}).ret # NULL THEN "zero_found" ELSE "zero_none"
    ELSE IF scan_sm(m, fl, NULL, size, {}).k = "found" THEN "found" ELSE "none"

\* the exit a call to mem_free takes: line 117, 131, 157 or 166
free_exit_sm(m, fl, block) ==
    IF block = NULL THEN "null"
    ELSE IF find_sm(m, fl, NULL, block, {}).k # "found" THEN "not_found"
    ELSE IF RdFree(m, find_sm(m, fl, NULL, block, {}).b) # 0 THEN "already_free"
    ELSE "freed"

\* the exits of mem_alloc and mem_free with all but the already-free exit unlocking
unlocks_sm_but_one(exit) ==
    exit \in {"zero_found", "zero_none", "found", "none", "null", "freed", "not_found"}

\* the exits of mem_alloc and mem_free that call pthread_mutex_unlock before
\* they return: lines 53, 59, 93, 103, 117, 131, 157, 166
unlocks_sm(exit) ==
    exit \in {"zero_found", "zero_none", "found", "none",
              "null", "already_free", "freed", "not_found"}

-----------------------------------------------------------------------------
(* The guarded header-pool allocator: src/unnamed/part_001 lines 137-329.    *)
(* Its mem_alloc and mem_resize are those of part_002 behind a test of the   *)
(* pool pointers; its mem_free computes the header from the pointer.         *)

\* line 147: the header pool is HeaderFactor times the data pool
HeaderFactor == 10000

\* no call sequence of the model writes more than MaxCalls + 2 headers: the
\* header pool is mapped that far
HeaderPoolBytes(size) ==
    IF size * HeaderFactor < SizeofBlockData * (MaxCalls + 2)
    THEN size * HeaderFactor
    ELSE SizeofBlockData * (MaxCalls + 2)

\* the memory of an allocator that holds no pool
NoMem == [a \in {} |-> Uninit]

mem_init_gh(size, hdr) ==
    LET m0 == [a \in PoolAddrs(PoolBase, size) \cup PoolAddrs(hdr, HeaderPoolBytes(size))
                  |-> Uninit]
        m1 == WrSize(m0, hdr, size)
        m2 == WrFree(m1, hdr, 1)
        m3 == WrNext(m2, hdr, NULL)
        m4 == WrData(m3, hdr, PoolBase)
    IN  [m |-> m4, pool |-> PoolBase, hdr |-> hdr, fl |-> hdr, cap |-> size]

\* lines 161-222
mem_alloc_gh(m, fl, pool, hdr, size) ==
    IF pool = NULL \/ hdr = NULL THEN Ret(m, fl, NULL)
    ELSE mem_alloc_sm(m, fl, size)

\* lines 256-262: the last block of the list before block_to_free
RECURSIVE walk_gh(_, _, _, _, _)
walk_gh(m, cur, prev, btf, seen) ==
    IF cur = NULL \/ ~(cur < btf) THEN [st |-> "ok", prev |-> prev]
    ELSE IF cur \in seen THEN [st |-> "hung", prev |-> prev]
    ELSE IF ~OkNext(m, cur) THEN [st |-> "ub", prev |-> prev]
    ELSE walk_gh(m, RdNext(m, cur), cur, btf, seen \cup {cur})

\* lines 246-277: mark free, merge with the next block, insert or merge with
\* the block before
release_gh(m, fl, hdr, btf) ==
    LET m1 == WrFree(m, btf, 1)
        nx == RdNext(m1, btf)
        withnext == nx # NULL /\ nx < hdr + RdSize(m1, fl) /\ RdFree(m1, nx) # 0
        m2 == IF withnext
              THEN LET g == WrSize(m1, btf, RdSize(m1, btf) + SizeofBlockData + RdSize(m1, nx))
                   IN  WrNext(g, btf, RdNext(g, nx))
              ELSE m1
        w == walk_gh(m2, fl, NULL, btf, {})
        joins == w.prev # NULL /\ w.prev + SizeofBlockData + RdSize(m2, w.prev) = btf
        m3 == IF w.prev = NULL THEN WrNext(m2, btf, fl)
              ELSE IF joins
              THEN LET g == WrSize(m2, w.prev,
                                   RdSize(m2, w.prev) + SizeofBlockData + RdSize(m2, btf))
                   IN  WrNext(g, w.prev, RdNext(g, btf))
              ELSE WrNext(WrNext(m2, btf, RdNext(m2, w.prev)), w.prev, btf)
    IN  IF ~HdrDataMapped(m, btf) \/ ~OkNext(m1, btf) \/ ~OkSize(m1, fl)
           \/ (nx # NULL /\ nx < hdr + RdSize(m1, fl) /\ ~OkFree(m1, nx))
           \/ (withnext /\ (~OkSize(m1, btf) \/ ~OkSize(m1, nx) \/ ~OkNext(m1, nx)))
        THEN Fail("ub", m, fl)
        ELSE IF w.st # "ok" THEN Fail(w.st, m, fl)
        ELSE IF w.prev # NULL /\ (~OkSize(m2, w.prev) \/ ~OkSize(m2, btf) \/ ~OkNext(m2, w.prev))
        THEN Fail("ub", m, fl)
        ELSE Ret(m3, IF w.prev = NULL THEN btf ELSE fl, NULL)

\* lines 225-278
mem_free_gh(m, fl, pool, hdr, block) ==
    IF block = NULL \/ pool = NULL \/ hdr = NULL THEN Ret(m, fl, NULL)
    ELSE LET btf == block - SizeofBlockData
         IN  IF btf < hdr THEN Ret(m, fl, NULL)
             ELSE IF fl = NULL THEN Fail("null_deref", m, fl)
             ELSE IF ~OkSize(m, fl) THEN Fail("ub", m, fl)
             ELSE IF btf >= hdr + RdSize(m, fl) THEN Ret(m, fl, NULL)
             ELSE IF ~OkFree(m, btf) THEN Fail("ub", m, fl)
             ELSE IF RdFree(m, btf) # 0 THEN Ret(m, fl, NULL)
             ELSE release_gh(m, fl, hdr, btf)

\* lines 281-315: as in part_002, without a test of the pool pointers
mem_resize_gh(m, fl, block, size) == mem_resize_sm(m, fl, block, size)

\* what pthread_mutex_lock does at the entry of a call: it returns, or, on a
\* mutex that pthread_mutex_destroy has destroyed, anything
LockOutcomes(lock) == IF lock = "destroyed" THEN {"returns", "ub"} ELSE {"returns"}

-----------------------------------------------------------------------------
(* The caller: what it asks of the allocator, and the allocations it holds *)

\* the sizes the caller initialises a pool with: whole words, and three bytes less
PoolSizes ==
    {PtrSize * w : w \in MinPoolWords .. MaxPoolWords}
        \cup {PtrSize * w - 3 : w \in MinPoolWords .. MaxPoolWords}

\* the sizes the caller requests: none, one byte, whole words, and the sizes at
\* the edge of a pool of `cap` bytes
ReqSizes(cap) ==
    {0, 1} \cup {PtrSize * k : k \in 1 .. MaxReqWords}
           \cup {cap + 1, cap - SizeofBlock}

Held == {l.p : l \in live}

\* what the caller stores in the word at address a: a value that names the word
DataBase == 1000 * PtrSize
StoreData(m, p, bytes) ==
    [a \in DOMAIN m |-> IF a \in Words(p, bytes) THEN DataBase + (a - PoolBase) ELSE m[a]]

Call(op, p, n, ret) == [op |-> op, p |-> p, n |-> n, ret |-> ret]

\* Trip: on a pristine pool, three allocations of a third of the pool each, then
\* mem_free of the first, the third and the second, then one allocation of the
\* size of the pool.  TripStep(t, c) says that call c is the next call of Trip
\* after the calls t.
Off == <<Call("off", NULL, 0, NULL)>>
TripStep(t, c) ==
    /\ t # Off
    /\ CASE Len(t) \in {0, 1, 2} -> c.op = "alloc" /\ 3 * c.n = capacity /\ c.ret # NULL
         [] Len(t) = 3 -> c.op = "free" /\ c.p = t[1].ret
         [] Len(t) = 4 -> c.op = "free" /\ c.p = t[3].ret
         [] Len(t) = 5 -> c.op = "free" /\ c.p = t[2].ret
         [] Len(t) = 6 -> c.op = "alloc" /\ c.n = capacity
         [] OTHER -> FALSE
TripAfter(t, c) == IF TripStep(t, c) THEN Append(t, c) ELSE Off

\* the state a call leaves: a call that does not return leaves the arena as it was
Leave(r, op, p, n, newlive, newstale) ==
    /\ calls < MaxCalls
    /\ r.st # "partial"
    /\ calls' = calls + 1
    /\ status' = r.st
    /\ last' = Call(op, p, n, IF r.st = "ok" THEN r.ret ELSE NULL)
    /\ mem' = IF r.st = "ok" THEN r.m ELSE mem
    /\ free_list' = IF r.st = "ok" THEN r.fl ELSE free_list
    /\ live' = IF r.st = "ok" THEN newlive ELSE live
    /\ stale' = IF r.st = "ok" THEN newstale ELSE stale
    /\ memory_lock' = IF r.st = "ok" \/ memory_lock = "none" THEN memory_lock ELSE "locked"
    /\ trip' = IF r.st = "ok" THEN TripAfter(trip, Call(op, p, n, r.ret)) ELSE Off
    /\ UNCHANGED <<memory_pool, header_pool, capacity, threads>>

\* the state a call leaves that entered through pthread_mutex_lock
LeaveLocked(r, op, p, n, newlive, newstale) ==
    \E o \in LockOutcomes(memory_lock) :
        Leave(IF o = "ub" THEN Fail("ub", mem, free_list) ELSE r, op, p, n, newlive, newstale)

AfterAlloc(r, n) == IF r.ret = NULL THEN live ELSE live \cup {[p |-> r.ret, n |-> n]}
StaleAfter(ret) == IF ret = stale THEN NULL ELSE stale

AfterResize(r, p, n) ==
    IF r.ret = NULL THEN live
    ELSE {l \in live : l.p # p} \cup {[p |-> r.ret, n |-> n]}

-----------------------------------------------------------------------------
(* SpecCo: the colocated allocator under any sequence of calls *)

InitCo ==
    \E c \in PoolSizes :
        LET i == mem_init_co(c)
        IN  /\ mem = i.m
            /\ memory_pool = i.pool
            /\ header_pool = NULL
            /\ free_list = i.fl
            /\ capacity = i.cap
            /\ live = {}
            /\ stale = NULL
            /\ status = "ok"
            /\ last = Call("init", NULL, c, NULL)
            /\ calls = 0
            /\ memory_lock = "none"
            /\ trip = <<>>
            /\ threads = <<>>

AllocCo ==
    /\ status = "ok"
    /\ \E n \in ReqSizes(capacity) :
          LET r == mem_alloc_co(mem, free_list, n)
          IN  Leave(r, "alloc", NULL, n, AfterAlloc(r, n), StaleAfter(r.ret))

FreeCo ==
    /\ status = "ok"
    /\ \E p \in Held \cup {stale, NULL} :
          LET r == mem_free_co(mem, free_list, p)
          IN  Leave(r, "free", p, 0, {l \in live : l.p # p},
                    IF p = NULL THEN stale ELSE p)

ResizeCo ==
    /\ status = "ok"
    /\ \E p \in Held \cup {NULL}, n \in ReqSizes(capacity) :
          LET r == mem_resize_co(mem, free_list, p, n)
          IN  Leave(r, "resize", p, n, AfterResize(r, p, n),
                    IF r.ret # NULL /\ r.ret # p /\ p # NULL THEN p
                    ELSE StaleAfter(r.ret))

\* the caller fills the whole words of one of its allocations with StoreData
StoreCo ==
    /\ status = "ok"
    /\ calls < MaxCalls
    /\ \E l \in live :
          /\ l.n >= PtrSize
          /\ IF Words(l.p, l.n - (l.n % PtrSize)) \subseteq DOMAIN mem
             THEN /\ mem' = StoreData(mem, l.p, l.n - (l.n % PtrSize))
                  /\ status' = "ok"
             ELSE /\ mem' = mem
                  /\ status' = "ub"
          /\ last' = Call("store", l.p, l.n, NULL)
    /\ calls' = calls + 1
    /\ trip' = Off
    /\ UNCHANGED <<memory_pool, header_pool, free_list, capacity, live, stale, memory_lock,
                   threads>>

NextCo == AllocCo \/ FreeCo \/ ResizeCo \/ StoreCo

SpecCo == InitCo /\ [][NextCo]_vars

-----------------------------------------------------------------------------
(* SpecMx: the mutex-protected colocated allocator under any sequence of calls *)

\* this variant rounds no size: it is given pools and requests of whole words,
\* and one request that is not
MxPoolSizes == {PtrSize * w : w \in MinPoolWords .. MaxPoolWords} \cup {PtrSize * WidePoolWords}
MxReqSizes == {0, 1} \cup {PtrSize * k : k \in 1 .. MaxReqWords} \cup {PtrSize * WideReqWords}

InitMx ==
    \E c \in MxPoolSizes :
        LET i == mem_init_mx(c)
        IN  /\ mem = i.m
            /\ memory_pool = i.pool
            /\ header_pool = NULL
            /\ free_list = i.fl
            /\ capacity = i.cap
            /\ live = {}
            /\ stale = NULL
            /\ status = "ok"
            /\ last = Call("init", NULL, c, NULL)
            /\ calls = 0
            /\ memory_lock = "unlocked"
            /\ trip = <<>>
            /\ threads = <<>>

AllocMx ==
    /\ status = "ok"
    /\ \E n \in MxReqSizes :
          LET r == mem_alloc_mx(mem, free_list, n)
          IN  Leave(r, "alloc", NULL, n, AfterAlloc(r, n), StaleAfter(r.ret))

FreeMx ==
    /\ status = "ok"
    /\ \E p \in Held \cup {stale, NULL} :
          LET r == mem_free_mx(mem, free_list, p)
          IN  Leave(r, "free", p, 0, {l \in live : l.p # p},
                    IF p = NULL THEN stale ELSE p)

ResizeMx ==
    /\ status = "ok"
    /\ \E p \in Held \cup {NULL}, n \in MxReqSizes :
          LET r == mem_resize_mx(mem, free_list, p, n)
          IN  Leave(r, "resize", p, n,
                    IF p # NULL /\ n = 0 THEN {l \in live : l.p # p}
                    ELSE AfterResize(r, p, n),
                    IF p # NULL /\ n = 0 THEN p ELSE StaleAfter(r.ret))

NextMx == AllocMx \/ FreeMx \/ ResizeMx

SpecMx == InitMx /\ [][NextMx]_vars

-----------------------------------------------------------------------------
(* SpecSm: the header-pool allocator under any sequence of calls *)

SmPoolSizes == {3 * PtrSize * w : w \in MinThirdWords .. MaxThirdWords}

\* none, whole words, a third of the pool, and all of it
SmReqSizes(cap) == {0} \cup {PtrSize * k : k \in 1 .. MaxReqWords} \cup {cap \div 3, cap}

InitSm ==
    \E c \in SmPoolSizes :
        LET i == mem_init_sm(c)
        IN  /\ mem = i.m
            /\ memory_pool = i.pool
            /\ header_pool = i.hdr
            /\ free_list = i.fl
            /\ capacity = i.cap
            /\ live = {}
            /\ stale = NULL
            /\ status = "ok"
            /\ last = Call("init", NULL, c, NULL)
            /\ calls = 0
            /\ memory_lock = "unlocked"
            /\ trip = <<>>
            /\ threads = <<>>

AllocSm ==
    /\ status = "ok"
    /\ \E n \in SmReqSizes(capacity) :
          LET r == mem_alloc_sm(mem, free_list, n)
          IN  LeaveLocked(r, "alloc", NULL, n,
                          IF n = 0 THEN live ELSE AfterAlloc(r, n),
                          IF n = 0 /\ r.ret # NULL THEN r.ret ELSE StaleAfter(r.ret))

\* a pointer into the middle of the pool's first word: no mem_alloc returns it
Foreign == memory_pool + PtrSize \div 2

FreeSm ==
    /\ status = "ok"
    /\ \E p \in Held \cup {stale, NULL, Foreign} :
          LET r == mem_free_sm(mem, free_list, p)
          IN  LeaveLocked(r, "free", p, 0, {l \in live : l.p # p},
                          IF p \in {NULL, Foreign} THEN stale ELSE p)

ResizeSm ==
    /\ status = "ok"
    /\ \E p \in Held \cup {NULL}, n \in SmReqSizes(capacity) :
          LET r == mem_resize_sm(mem, free_list, p, n)
          IN  LeaveLocked(r, "resize", p, n, AfterResize(r, p, n), StaleAfter(r.ret))

\* the caller fills one of its allocations with StoreData
StoreSm ==
    /\ status = "ok"
    /\ calls < MaxCalls
    /\ \E l \in live :
          /\ l.n % PtrSize = 0
          /\ IF Words(l.p, l.n) \subseteq DOMAIN mem
             THEN /\ mem' = StoreData(mem, l.p, l.n)
                  /\ status' = "ok"
             ELSE /\ mem' = mem
                  /\ status' = "ub"
          /\ last' = Call("store", l.p, l.n, NULL)
    /\ calls' = calls + 1
    /\ trip' = Off
    /\ UNCHANGED <<memory_pool, header_pool, free_list, capacity, live, stale, memory_lock,
                   threads>>

\* lines 221-232: the pools are freed, and with them every allocation the
\* caller holds, and memory_lock is destroyed
DeinitSm ==
    /\ status = "ok"
    /\ calls < MaxCalls
    /\ memory_pool # NULL
    /\ \E o \in LockOutcomes(memory_lock) :
          IF o = "ub"
          THEN /\ status' = "ub"
               /\ UNCHANGED <<mem, memory_pool, header_pool, free_list, capacity, memory_lock>>
          ELSE /\ status' = "ok"
               /\ mem' = NoMem
               /\ memory_pool' = NULL
               /\ header_pool' = NULL
               /\ free_list' = NULL
               /\ capacity' = 0
               /\ memory_lock' = "destroyed"
    /\ last' = Call("deinit", NULL, 0, NULL)
    /\ calls' = calls + 1
    /\ trip' = Off
    /\ live' = IF status' = "ok" THEN {} ELSE live
    /\ UNCHANGED <<stale, threads>>

\* lines 16-33: mem_init after a mem_deinit; memory_lock is not touched
MemInitSm ==
    /\ status = "ok"
    /\ calls < MaxCalls
    /\ memory_pool = NULL
    /\ \E c \in SmPoolSizes :
          LET i == mem_init_sm(c)
          IN  /\ mem' = i.m
              /\ memory_pool' = i.pool
              /\ header_pool' = i.hdr
              /\ free_list' = i.fl
              /\ capacity' = i.cap
              /\ last' = Call("init", NULL, c, NULL)
    /\ calls' = calls + 1
    /\ trip' = Off
    /\ UNCHANGED <<live, stale, status, memory_lock, threads>>

NextSm == AllocSm \/ FreeSm \/ ResizeSm \/ StoreSm \/ DeinitSm \/ MemInitSm

SpecSm == InitSm /\ [][NextSm]_vars

-----------------------------------------------------------------------------
(* SpecSmT: threads calling the header-pool allocator.  A call is three     *)
(* steps: the thread enters the call, it passes pthread_mutex_lock, and it  *)
(* runs the call's body, all of it under memory_lock, to the return.        *)

Threads == 1 .. NumThreads

\* memory_lock is the thread that holds it, or Unlocked
Unlocked == 0

\* the sizes the threads ask for: none, some words, and the whole pool
ThreadReqSizes(cap) == {0, PtrSize * MaxReqWords, cap}

Idle == [pc |-> "idle", op |-> "none", p |-> NULL, n |-> 0, ret |-> NULL, exit |-> "none"]

InitSmT ==
    \E c \in SmPoolSizes :
        LET i == mem_init_sm(c)
        IN  /\ mem = i.m
            /\ memory_pool = i.pool
            /\ header_pool = i.hdr
            /\ free_list = i.fl
            /\ capacity = i.cap
            /\ live = {}
            /\ stale = NULL
            /\ status = "ok"
            /\ last = Call("init", NULL, c, NULL)
            /\ calls = 0
            /\ memory_lock = Unlocked
            /\ trip = Off
            /\ threads = [t \in Threads |-> Idle]

\* thread t calls mem_alloc(n), mem_free(p) or mem_resize(p, n); it gives up a
\* pointer it passes
EnterSmT(t) ==
    /\ status = "ok"
    /\ calls < MaxThreadCalls
    /\ threads[t].pc = "idle"
    /\ \E op \in {"alloc", "free", "resize"}, p \in Held \cup {stale, NULL},
          n \in ThreadReqSizes(capacity) :
          /\ op = "alloc" => p = NULL
          /\ op = "free" => n = 0
          /\ op = "resize" => p \in Held \cup {NULL}
          /\ threads' = [threads EXCEPT ![t] =
                            [pc |-> "lock", op |-> op, p |-> p, n |-> n,
                             ret |-> NULL, exit |-> "none"]]
          /\ live' = {l \in live : l.p # p}
          /\ stale' = IF p = stale THEN NULL ELSE stale
    /\ calls' = calls + 1
    /\ UNCHANGED <<mem, memory_pool, header_pool, free_list, capacity, status, last,
                   memory_lock, trip>>

\* pthread_mutex_lock at the entry of the call returns
LockSmT(t) ==
    /\ status = "ok"
    /\ threads[t].pc = "lock"
    /\ memory_lock = Unlocked
    /\ memory_lock' = t
    /\ threads' = [threads EXCEPT ![t].pc = "body"]
    /\ UNCHANGED <<mem, memory_pool, header_pool, free_list, capacity, live, stale, status,
                   last, calls, trip>>

\* what a body leaves: the arena, the caller's pointers and the lock
ReturnSmT(t, r, exit, unlocked, newlive, newstale) ==
    /\ status' = IF r.st = "deadlock" THEN "ok" ELSE r.st
    /\ mem' = IF r.st = "ok" THEN r.m ELSE mem
    /\ free_list' = IF r.st = "ok" THEN r.fl ELSE free_list
    /\ live' = IF r.st = "ok" THEN newlive ELSE live
    /\ stale' = IF r.st = "ok" THEN newstale ELSE stale
    /\ memory_lock' = IF r.st = "ok" /\ unlocked THEN Unlocked ELSE memory_lock
    /\ threads' = [threads EXCEPT ![t].pc = CASE r.st = "ok" -> "idle"
                                              [] r.st = "deadlock" -> "relock"
                                              [] OTHER -> "dead",
                                  ![t].ret = IF r.st = "ok" THEN r.ret ELSE NULL,
                                  ![t].exit = exit]
    /\ UNCHANGED <<memory_pool, header_pool, capacity, calls, trip, last>>

AllocSmT(t) ==
    /\ status = "ok"
    /\ threads[t].pc = "body"
    /\ threads[t].op = "alloc"
    /\ LET n == threads[t].n
           r == mem_alloc_sm(mem, free_list, n)
           exit == alloc_exit_sm(mem, free_list, n)
       IN  ReturnSmT(t, r, exit, unlocks_sm(exit),
                     IF n = 0 THEN live ELSE AfterAlloc(r, n),
                     IF n = 0 /\ r.ret # NULL THEN r.ret ELSE StaleAfter(r.ret))

FreeSmT(t) ==
    /\ status = "ok"
    /\ threads[t].pc = "body"
    /\ threads[t].op = "free"
    /\ LET r == mem_free_sm(mem, free_list, threads[t].p)
           exit == free_exit_sm(mem, free_list, threads[t].p)
       IN  ReturnSmT(t, r, exit, unlocks_sm(exit), live, stale)

\* mem_resize returns from line 199 only; everywhere else it calls mem_alloc or
\* mem_free, whose pthread_mutex_lock finds memory_lock held by the caller
ResizeSmT(t) ==
    /\ status = "ok"
    /\ threads[t].pc = "body"
    /\ threads[t].op = "resize"
    /\ LET r == mem_resize_sm(mem, free_list, threads[t].p, threads[t].n)
       IN  ReturnSmT(t, r, "large_enough", TRUE,
                     live \cup {[p |-> r.ret, n |-> threads[t].n]}, stale)

NextSmT ==
    \E t \in Threads :
        EnterSmT(t) \/ LockSmT(t) \/ AllocSmT(t) \/ FreeSmT(t) \/ ResizeSmT(t)

SpecSmT == InitSmT /\ [][NextSmT]_vars

-----------------------------------------------------------------------------
(* SpecCoT: threads calling the colocated allocator of memory_manager.c,    *)
(* which takes no lock.  mem_alloc is two steps, the search for a block     *)
(* that fits (lines 34-36) and the split and marking of the block found     *)
(* (lines 38-52); the steps of different threads interleave.                *)

InitCoT ==
    \E c \in PoolSizes :
        LET i == mem_init_co(c)
        IN  /\ mem = i.m
            /\ memory_pool = i.pool
            /\ header_pool = NULL
            /\ free_list = i.fl
            /\ capacity = i.cap
            /\ live = {}
            /\ stale = NULL
            /\ status = "ok"
            /\ last = Call("init", NULL, c, NULL)
            /\ calls = 0
            /\ memory_lock = "none"
            /\ trip = Off
            /\ threads = [t \in Threads |-> Idle]

\* thread t calls mem_alloc(n), or mem_free(p) of a pointer some thread was
\* returned; the pointer is then no thread's any more
EnterCoT(t) ==
    /\ status = "ok"
    /\ calls < MaxThreadCalls
    /\ threads[t].pc = "idle"
    /\ \E op \in {"alloc", "free"}, p \in Held \cup {NULL},
          n \in {0, 1, PtrSize * MaxReqWords} :
          /\ op = "alloc" => p = NULL
          /\ op = "free" => (n = 0 /\ p # NULL)
          /\ threads' = [u \in Threads |->
                            IF u = t
                            THEN [pc |-> "find", op |-> op, p |-> p, n |-> n,
                                  ret |-> NULL, exit |-> "none"]
                            ELSE IF p # NULL /\ threads[u].ret = p
                            THEN [threads[u] EXCEPT !.ret = NULL]
                            ELSE threads[u]]
          /\ live' = {l \in live : l.p # p}
    /\ calls' = calls + 1
    /\ UNCHANGED <<mem, memory_pool, header_pool, free_list, capacity, stale, status, last,
                   memory_lock, trip>>

\* what a step of a call leaves; pc is where the thread goes on
StepCoT(t, r, pc, cur, newlive) ==
    /\ status' = r.st
    /\ mem' = IF r.st = "ok" THEN r.m ELSE mem
    /\ free_list' = IF r.st = "ok" THEN r.fl ELSE free_list
    /\ live' = IF r.st = "ok" THEN newlive ELSE live
    /\ threads' = [threads EXCEPT ![t].pc = IF r.st = "ok" THEN pc ELSE "dead",
                                  ![t].p = cur,
                                  ![t].ret = IF r.st = "ok" THEN r.ret ELSE NULL]
    /\ UNCHANGED <<memory_pool, header_pool, capacity, stale, last, calls, memory_lock, trip>>

\* lines 28-36 and 55-59: the search; it ends the call when nothing fits
FindCoT(t) ==
    /\ status = "ok"
    /\ threads[t].pc = "find"
    /\ threads[t].op = "alloc"
    /\ LET size == ALIGN(threads[t].n)
           f == scan_co(mem, free_list, size, {})
       IN  CASE threads[t].n = 0 \/ f.k = "none" ->
                    StepCoT(t, Ret(mem, free_list, NULL), "idle", NULL, live)
             [] threads[t].n # 0 /\ f.k = "hang" ->
                    StepCoT(t, Fail("hung", mem, free_list), "idle", NULL, live)
             [] threads[t].n # 0 /\ f.k = "ub" ->
                    StepCoT(t, Fail("ub", mem, free_list), "idle", NULL, live)
             [] threads[t].n # 0 /\ f.k = "found" ->
                    StepCoT(t, Ret(mem, free_list, NULL), "take", f.b, live)

\* lines 38-52: the block found is split, marked allocated and returned
TakeCoT(t) ==
    /\ status = "ok"
    /\ threads[t].pc = "take"
    /\ LET r == take_co(mem, free_list, threads[t].p, ALIGN(threads[t].n))
       IN  StepCoT(t, r, "idle", NULL, live \cup {[p |-> r.ret, n |-> threads[t].n]})

\* lines 62-107: mem_free
FreeCoT(t) ==
    /\ status = "ok"
    /\ threads[t].pc = "find"
    /\ threads[t].op = "free"
    /\ LET r == mem_free_co(mem, free_list, threads[t].p)
       IN  StepCoT(t, r, "idle", NULL, live)

NextCoT ==
    \E t \in Threads : EnterCoT(t) \/ FindCoT(t) \/ TakeCoT(t) \/ FreeCoT(t)

SpecCoT == InitCoT /\ [][NextCoT]_vars

-----------------------------------------------------------------------------
(* SpecGh: the guarded header-pool allocator from before its first mem_init *)

\* where malloc places the header pool: after the data pool or before it
HeaderPlaces == {HeaderBase, PoolBase - 4096}

InitGh ==
    /\ mem = NoMem
    /\ memory_pool = NULL
    /\ header_pool = NULL
    /\ free_list = NULL
    /\ capacity = 0
    /\ live = {}
    /\ stale = NULL
    /\ status = "ok"
    /\ last = Call("none", NULL, 0, NULL)
    /\ calls = 0
    /\ memory_lock = "unlocked"
    /\ trip = Off
    /\ threads = <<>>

\* lines 144-159: mem_init of an allocator that holds no pool
MemInitGh ==
    /\ status = "ok"
    /\ calls < MaxCalls
    /\ memory_pool = NULL
    /\ \E c \in SmPoolSizes, h \in HeaderPlaces :
          LET i == mem_init_gh(c, h)
          IN  /\ mem' = i.m
              /\ memory_pool' = i.pool
              /\ header_pool' = i.hdr
              /\ free_list' = i.fl
              /\ capacity' = i.cap
              /\ last' = Call("init", NULL, c, NULL)
    /\ calls' = calls + 1
    /\ trip' = Off
    /\ UNCHANGED <<live, stale, status, memory_lock, threads>>

AllocGh ==
    /\ status = "ok"
    /\ \E n \in SmReqSizes(capacity) :
          LET r == mem_alloc_gh(mem, free_list, memory_pool, header_pool, n)
          IN  LeaveLocked(r, "alloc", NULL, n,
                      IF n = 0 THEN live ELSE AfterAlloc(r, n),
                      IF n = 0 /\ r.ret # NULL THEN r.ret ELSE StaleAfter(r.ret))

FreeGh ==
    /\ status = "ok"
    /\ \E p \in Held \cup {stale, NULL} :
          LET r == mem_free_gh(mem, free_list, memory_pool, header_pool, p)
          IN  LeaveLocked(r, "free", p, 0, {l \in live : l.p # p},
                      IF p = NULL THEN stale ELSE p)

ResizeGh ==
    /\ status = "ok"
    /\ \E p \in Held \cup {NULL}, n \in SmReqSizes(capacity) :
          LET r == mem_resize_gh(mem, free_list, p, n)
          IN  LeaveLocked(r, "resize", p, n, AfterResize(r, p, n), StaleAfter(r.ret))

\* lines 318-329: the pools are freed and memory_lock is destroyed; the caller
\* keeps the pointers it holds
DeinitGh ==
    /\ status = "ok"
    /\ calls < MaxCalls
    /\ memory_pool # NULL
    /\ \E o \in LockOutcomes(memory_lock) :
          IF o = "ub"
          THEN /\ status' = "ub"
               /\ UNCHANGED <<mem, memory_pool, header_pool, free_list, capacity, memory_lock>>
          ELSE /\ status' = "ok"
               /\ mem' = NoMem
               /\ memory_pool' = NULL
               /\ header_pool' = NULL
               /\ free_list' = NULL
               /\ capacity' = 0
               /\ memory_lock' = "destroyed"
    /\ last' = Call("deinit", NULL, 0, NULL)
    /\ calls' = calls + 1
    /\ trip' = Off
    /\ UNCHANGED <<live, stale, threads>>

NextGh == MemInitGh \/ AllocGh \/ FreeGh \/ ResizeGh \/ DeinitGh

SpecGh == InitGh /\ [][NextGh]_vars

-----------------------------------------------------------------------------
(* The block list as the claims read it *)

\* the blocks reached from `b` by next_block, up to NULL, to a block met before,
\* or to a pointer that leaves the pool
RECURSIVE Chain(_, _, _)
Chain(m, b, acc) ==
    IF b = NULL \/ ~HdrMapped(m, b) \/ ~OkNext(m, b) \/ ~OkSize(m, b) \/ ~OkFree(m, b)
    THEN acc
    ELSE IF \E i \in 1 .. Len(acc) : acc[i] = b THEN acc
    ELSE Chain(m, RdNext(m, b), Append(acc, b))

\* the list ends in NULL: no block is reached twice and no pointer leaves the pool
RECURSIVE Ends(_, _, _)
Ends(m, b, seen) ==
    IF b = NULL THEN TRUE
    ELSE IF b \in seen \/ ~HdrMapped(m, b) \/ ~OkNext(m, b) \/ ~OkSize(m, b) \/ ~OkFree(m, b)
    THEN FALSE
    ELSE Ends(m, RdNext(m, b), seen \cup {b})

\* what the list shows: each block's address, size_of_block, is_free and next_block
ListView(m, fl) ==
    [i \in 1 .. Len(Chain(m, fl, <<>>)) |->
        LET b == Chain(m, fl, <<>>)[i]
        IN  <<b, RdSize(m, b), RdFree(m, b), RdNext(m, b)>>]

BlockEnd(m, b) == b + SizeofBlock + RdSize(m, b)

\* the payload bytes of the allocation at p, as its header gives them
Payload(m, p) == {a \in p .. (p + RdSize(m, p - SizeofBlock) - 1) : TRUE}
Header(b) == b .. (b + SizeofBlock - 1)

-----------------------------------------------------------------------------
(* Claims about the colocated allocator *)

\* C1: after mem_init(C) and any completed calls, the blocks of the list, header
\* plus payload each, cover the pool exactly once: the first starts the pool, each
\* next one starts where its predecessor ends, the last ends where the pool ends.
C1_Partition ==
    status = "ok" =>
        LET ch == Chain(mem, free_list, <<>>)
        IN  /\ Ends(mem, free_list, {})
            /\ Len(ch) >= 1
            /\ ch[1] = memory_pool
            /\ \A i \in 1 .. Len(ch) - 1 : BlockEnd(mem, ch[i]) = ch[i + 1]
            /\ BlockEnd(mem, ch[Len(ch)]) = memory_pool + capacity

\* C2: the payloads of two live allocations never share a byte, and no payload
\* holds a byte of the header of a block of the list.
C2_Exclusive ==
    status = "ok" =>
        /\ \A p \in Held, q \in Held :
              p # q => Payload(mem, p) \cap Payload(mem, q) = {}
        /\ \A p \in Held :
              \A i \in 1 .. Len(Chain(mem, free_list, <<>>)) :
                  Payload(mem, p) \cap Header(Chain(mem, free_list, <<>>)[i]) = {}

\* the call this step makes is mem_resize(p, n) on a live allocation p
ResizeOfLive == last'.op = "resize" /\ calls' = calls + 1 /\ last'.p \in Held

\* no block is free with room for `size` bytes: none of the list, and none that
\* the list has lost (no three words of the pool read as such a header)
NoFit(m, fl, size) ==
    /\ \A i \in 1 .. Len(Chain(m, fl, <<>>)) :
          LET b == Chain(m, fl, <<>>)[i]
          IN  ~(RdFree(m, b) # 0 /\ RdSize(m, b) >= size)
    /\ \A b \in DOMAIN m :
          ~(OkFree(m, b) /\ RdFree(m, b) # 0 /\ OkSize(m, b) /\ RdSize(m, b) >= size)

\* C6: on a pristine arena of C bytes, C a multiple of the pointer size and
\* C > sizeof(Block): mem_alloc(C + 1) returns NULL, mem_alloc(C - sizeof(Block))
\* returns a pointer, and after that call mem_alloc(1) returns NULL.
C6_Exhaustion ==
    [][/\ (/\ calls = 0
           /\ last.n % PtrSize = 0
           /\ last.n > SizeofBlock
           /\ last'.op = "alloc"
           /\ last'.n = last.n + 1)
          => (status' = "ok" /\ last'.ret = NULL)
       /\ (/\ calls = 0
           /\ last.n % PtrSize = 0
           /\ last.n > SizeofBlock
           /\ last'.op = "alloc"
           /\ last'.n = last.n - SizeofBlock)
          => (status' = "ok" /\ last'.ret # NULL)
       /\ (/\ calls = 1
           /\ last.op = "alloc"
           /\ last.n = capacity - SizeofBlock
           /\ last.ret # NULL
           /\ last'.op = "alloc"
           /\ last'.n = 1)
          => (status' = "ok" /\ last'.ret = NULL)]_vars

\* the arena is exhausted by one allocation and the request for one byte has failed
C6_Witness ==
    /\ calls = 2
    /\ last = Call("alloc", NULL, 1, NULL)
    /\ live = {[p |-> memory_pool + SizeofBlock, n |-> capacity - SizeofBlock]}
    /\ RdFree(mem, memory_pool) = 0

\* C7: mem_resize(p, 0) on a live allocation frees it: the call returns NULL and
\* the block owning p is marked free.
C7_ResizeZeroFrees ==
    [][(ResizeOfLive /\ last'.n = 0)
          => /\ status' = "ok"
             /\ last'.ret = NULL
             /\ RdFree(mem', last'.p - SizeofBlock) # 0]_vars

\* C8: mem_resize(p, n) that needs a larger block while no free block can hold
\* ALIGN(n) bytes returns NULL; the block owning p is still allocated with the
\* size it had, and every block header and link of the list is as it was.
C8_ResizeFailKeeps ==
    [][(/\ ResizeOfLive
        /\ OkSize(mem, last'.p - SizeofBlock)
        /\ RdSize(mem, last'.p - SizeofBlock) < ALIGN(last'.n)
        /\ NoFit(mem, free_list, ALIGN(last'.n)))
          => /\ status' = "ok"
             /\ last'.ret = NULL
             /\ RdFree(mem', last'.p - SizeofBlock) = 0
             /\ RdSize(mem', last'.p - SizeofBlock) = RdSize(mem, last'.p - SizeofBlock)
             /\ ListView(mem', free_list') = ListView(mem, free_list)]_vars

\* C9: mem_resize(p, n), n >= 1, on a live allocation whose size_of_block is
\* already >= ALIGN(n) returns p and changes nothing of the arena.
C9_ResizeNoop ==
    [][(/\ ResizeOfLive
        /\ last'.n >= 1
        /\ OkSize(mem, last'.p - SizeofBlock)
        /\ RdSize(mem, last'.p - SizeofBlock) >= ALIGN(last'.n))
          => /\ status' = "ok"
             /\ last'.ret = last'.p
             /\ mem' = mem
             /\ free_list' = free_list]_vars

\* a resize that grew nothing has returned the pointer it was given
C9_Witness ==
    /\ last.op = "resize"
    /\ last.p # NULL
    /\ last.n >= 1
    /\ last.ret = last.p
    /\ last.p \in Held
    /\ RdSize(mem, last.p - SizeofBlock) >= ALIGN(last.n)

\* C10: when mem_resize(p, n) moves a live allocation to a new block, the first
\* old_size bytes at the pointer it returns are the bytes that were at p before
\* the call, the internal mem_free(p) included.  (Stated for a payload of
\* whole words that holds the data the caller stored in it.)
C10_ResizeKeepsData ==
    [][(/\ ResizeOfLive
        /\ status' = "ok"
        /\ last'.ret # NULL
        /\ last'.ret # last'.p
        /\ OkSize(mem, last'.p - SizeofBlock)
        /\ RdSize(mem, last'.p - SizeofBlock) % PtrSize = 0
        /\ last'.n > RdSize(mem, last'.p - SizeofBlock)
        /\ \A a \in Words(last'.p, RdSize(mem, last'.p - SizeofBlock)) :
               Mapped(mem, a) /\ mem[a] = DataBase + (a - PoolBase))
          => \A a \in Words(last'.p, RdSize(mem, last'.p - SizeofBlock)) :
                 /\ Mapped(mem', last'.ret + (a - last'.p))
                 /\ mem'[last'.ret + (a - last'.p)] = mem[a]]_vars

\* a resize has moved an allocation that held stored data
C10_Witness ==
    /\ last.op = "resize"
    /\ last.p # NULL
    /\ last.ret # NULL
    /\ last.ret # last.p
    /\ status = "ok"
    /\ Mapped(mem, last.ret)
    /\ mem[last.ret] = DataBase + (last.p - PoolBase)

-----------------------------------------------------------------------------
(* Claims about the mutex-protected colocated allocator *)

\* the call this step makes is mem_free(p) on a pointer the allocator returned
FreeReturns == last'.op = "free" /\ calls' = calls + 1 /\ status' = "ok"

\* two blocks that follow each other in the list and are both free
AdjacentFree(m, fl) ==
    \E i \in 1 .. Len(Chain(m, fl, <<>>)) - 1 :
        /\ RdFree(m, Chain(m, fl, <<>>)[i]) # 0
        /\ RdFree(m, Chain(m, fl, <<>>)[i + 1]) # 0

\* C3: whenever mem_free returns, no two blocks that follow each other in the
\* list are both free, whatever the order of the frees.
C3_NoAdjacentFree ==
    [][(FreeReturns /\ last'.p # NULL) => ~AdjacentFree(mem', free_list')]_vars

\* C4: a second mem_free(p) right after mem_free(p) is a no-op: the links, the
\* size_of_block and the is_free flag of every block of the list are the same
\* before and after it.
C4_DoubleFreeNoop ==
    [][(/\ last'.op = "free"
        /\ calls' = calls + 1
        /\ last.op = "free"
        /\ last.p # NULL
        /\ last'.p = last.p)
          => /\ status' = "ok"
             /\ ListView(mem', free_list') = ListView(mem, free_list)]_vars

-----------------------------------------------------------------------------
(* Claims about the header-pool allocator *)

\* C5: on a pristine pool, after three equal allocations that exhaust the pool
\* and mem_free of the first, the third and the second of them, an allocation
\* of their combined size returns a pointer.
C5_TripRegainsPool == Len(trip) = 7 => trip[7].ret # NULL

-----------------------------------------------------------------------------
(* Claims about threads calling the header-pool allocator *)

C12_ResizeNeverRelocks ==
    \A t \in DOMAIN threads : ~(threads[t].pc = "relock" /\ memory_lock = t)

\* the descriptors written so far: the header slots whose fields are set
Descs(m) ==
    {h \in {header_pool + SizeofBlockData * k : k \in 0 .. capacity \div SizeofBlockData} :
        HdrDataMapped(m, h) /\ OkSize(m, h) /\ OkData(m, h) /\ OkFree(m, h)}

\* every byte of the data pool lies in the data range of exactly one descriptor
DataPartition(m) ==
    /\ \A h \in Descs(m) :
          RdData(m, h) >= memory_pool /\ RdData(m, h) + RdSize(m, h) <= memory_pool + capacity
    /\ \A a \in memory_pool .. memory_pool + capacity - 1 :
          Cardinality({h \in Descs(m) :
                          RdData(m, h) <= a /\ a < RdData(m, h) + RdSize(m, h)}) = 1

\* thread t's call to `op` runs its body in this step
BodyStep(t, op) == threads[t].pc = "body" /\ threads[t].op = op /\ threads'[t].pc # "body"

\* C13: with threads interleaving mem_alloc and mem_free, every call leaves the
\* data ranges of the descriptors a partition of the data pool, and the bytes
\* a mem_alloc(n), n >= 1, returns overlap no live allocation.
C13_ThreadsKeepPartition ==
    [][\A t \in DOMAIN threads :
          (BodyStep(t, "alloc") \/ BodyStep(t, "free")) =>
              /\ status' = "ok"
              /\ DataPartition(mem')
              /\ (threads[t].op = "alloc" /\ threads[t].n >= 1 /\ threads'[t].ret # NULL) =>
                    \A l \in live :
                        \/ l.p + l.n <= threads'[t].ret
                        \/ threads'[t].ret + threads[t].n <= l.p]_vars

-----------------------------------------------------------------------------
(* Claims about threads calling the colocated allocator *)

\* C14: the calls of different threads exclude each other on the block list,
\* so two threads that call mem_alloc are never both returned the same block
\* (neither having been freed since).
C14_NoBlockHandedTwice ==
    \A t \in DOMAIN threads, u \in DOMAIN threads :
        (/\ t # u
         /\ threads[t].pc = "idle" /\ threads[t].op = "alloc"
         /\ threads[u].pc = "idle" /\ threads[u].op = "alloc"
         /\ threads[t].ret # NULL)
            => threads[t].ret # threads[u].ret

-----------------------------------------------------------------------------
(* Claims about the guarded header-pool allocator *)

\* C15: while the allocator holds no pool (before the first mem_init, or after
\* mem_deinit) every call returns, with memory_lock released and with nothing
\* of the allocator read through a null or stale pointer or changed:
\* mem_alloc(n) returns NULL, mem_free(p) returns, mem_resize(p, n) returns, and
\* returns NULL when it would have to allocate.
C15_UninitializedFailsSafely ==
    [][(/\ memory_pool = NULL
        /\ calls' = calls + 1
        /\ last'.op \in {"alloc", "free", "resize"})
          => /\ status' = "ok"
             /\ memory_lock' # "locked"
             /\ mem' = mem
             /\ free_list' = free_list
             /\ last'.op = "alloc" => last'.ret = NULL
             /\ (last'.op = "resize" /\ last'.p = NULL) => last'.ret = NULL]_vars

-----------------------------------------------------------------------------
(* More claims about the header-pool allocator *)

\* C16: mem_init after mem_deinit gives the arena of a first mem_init, one free
\* descriptor spanning the pool, and the mem_alloc and mem_free calls that
\* follow never lock a destroyed mutex.
C16_ReinitLikeFirstInit ==
    [][/\ (calls' = calls + 1 /\ last'.op = "init")
          => /\ mem' = mem_init_sm(last'.n).m
             /\ free_list' = header_pool'
       /\ (calls' = calls + 1 /\ last'.op \in {"alloc", "free"} /\ memory_pool # NULL)
          => memory_lock # "destroyed"]_vars

\* C17: mem_alloc(0) returns NULL in every state of the arena and leaves the
\* free list and every descriptor unchanged.
C17_AllocZeroRejected ==
    [][(calls' = calls + 1 /\ last'.op = "alloc" /\ last'.n = 0 /\ memory_lock # "destroyed")
          => /\ last'.ret = NULL
             /\ mem' = mem
             /\ free_list' = free_list]_vars

\* the cases in which mem_free(q) has nothing to free: q is NULL, q is the data
\* of a descriptor of the list that is free, or no descriptor of the list has q
\* as its data
NothingToFree(q) ==
    \/ q = NULL
    \/ LET f == find_sm(mem, free_list, NULL, q, {})
       IN  \/ f.k = "none"
           \/ f.k = "found" /\ OkFree(mem, f.b) /\ RdFree(mem, f.b) # 0

\* C18: mem_free(q) returns and changes no descriptor field and no list link
\* whenever q is NULL, the data address of a descriptor that is already free,
\* or a pointer that is not the data address of any descriptor in the list.
C18_FreeNoop ==
    [][(calls' = calls + 1 /\ last'.op = "free" /\ NothingToFree(last'.p))
          => /\ status' = "ok"
             /\ mem' = mem
             /\ free_list' = free_list]_vars

\* the descriptor that mem_alloc(n) writes when it splits the block it finds,
\* or NULL when it finds no block or does not split
SplitDescriptor(n) ==
    LET f == scan_sm(mem, free_list, NULL, n, {})
    IN  IF n # 0 /\ f.k = "found" /\ RdSize(mem, f.b) > n + SizeofBlockData
        THEN f.b + SizeofBlockData
        ELSE NULL

\* C19: every descriptor that a split of mem_alloc creates lies wholly inside
\* the header pool that mem_init(C) reserved, [header_pool, header_pool + C).
C19_SplitInsideHeaderPool ==
    [][(calls' = calls + 1 /\ last'.op = "alloc" /\ SplitDescriptor(last'.n) # NULL)
          => /\ header_pool <= SplitDescriptor(last'.n)
             /\ SplitDescriptor(last'.n) + SizeofBlockData <= header_pool + capacity]_vars

-----------------------------------------------------------------------------
(* More claims about the mutex-protected colocated allocator *)

\* the block that mem_alloc(n) finds and takes, or NULL when it finds none
TakenBlock(n) ==
    LET f == scan_mx(mem, free_list, n, {})
    IN  IF n # 0 /\ f.k = "found" THEN f.b ELSE NULL

\* the header that mem_alloc(n) writes when it splits the block it takes
SplitHeader(n) == TakenBlock(n) + SizeofBlock + n

\* C20: every non-null pointer p that mem_alloc(n) returns has its n bytes
\* inside the pool, memory_pool <= p and p + n <= memory_pool + C, and every
\* block header a split writes lies wholly inside [memory_pool, memory_pool + C).
C20_AllocInsidePool ==
    [][(calls' = calls + 1 /\ last'.op = "alloc" /\ TakenBlock(last'.n) # NULL)
          => /\ memory_pool <= TakenBlock(last'.n) + SizeofBlock
             /\ TakenBlock(last'.n) + SizeofBlock + last'.n <= memory_pool + capacity
             /\ RdSize(mem, TakenBlock(last'.n)) > last'.n
                   => /\ memory_pool <= SplitHeader(last'.n)
                      /\ SplitHeader(last'.n) + SizeofBlock <= memory_pool + capacity]_vars

-----------------------------------------------------------------------------
(* The metadata_pool variant: src/memory_manager.c, lines 136-261 *)

\* lines 145-161: a pool of `size` bytes, a metadata pool of whole blocks, and
\* the first block, the first one of the metadata pool, with the whole size
mem_init_mp(size) ==
    LET m0 == [a \in PoolAddrs(PoolBase, size)
                    \cup PoolAddrs(HeaderBase, SizeofBlock * (size \div SizeofBlock))
                 |-> Uninit]
        m1 == WrSize(m0, HeaderBase, size)
        m2 == WrFree(m1, HeaderBase, 1)
        m3 == WrNext(m2, HeaderBase, NULL)
    IN  [m |-> m3, pool |-> PoolBase, hdr |-> HeaderBase, fl |-> HeaderBase, cap |-> size]

\* lines 178-191: the header of the rest is written at memory_pool +
\* sizeof(Block) + size, wherever the block found is
take_mp(m, fl, pool, cur, size) ==
    LET split == RdSize(m, cur) > size
        nb == pool + SizeofBlock + size
        m1 == WrSize(m, nb, RdSize(m, cur) - size)
        m2 == WrFree(m1, nb, 1)
        m3 == WrNext(m2, nb, RdNext(m2, cur))
        m4 == WrSize(m3, cur, size)
        m5 == WrNext(m4, cur, nb)
        m6 == IF split THEN m5 ELSE m
        m7 == WrFree(m6, cur, 0)
    IN  IF split /\ (~HdrMapped(m, nb) \/ ~OkNext(m2, cur))
        THEN Fail("ub", m, fl)
        ELSE Ret(m7, fl, cur + SizeofBlock)

\* lines 166-199; the search of lines 173-175 and 194-195 is that of scan_co
mem_alloc_mp(m, fl, pool, size) ==
    IF size = 0 THEN Ret(m, fl, NULL)
    ELSE LET f == scan_co(m, fl, size, {})
         IN  CASE f.k = "none" -> Ret(m, fl, NULL)
               [] f.k = "hang" -> Fail("hung", m, fl)
               [] f.k = "ub" -> Fail("ub", m, fl)
               [] f.k = "found" -> take_mp(m, fl, pool, f.b, size)

\* lines 220-224: the first block of the list that is not below block_to_free
RECURSIVE walk_mp(_, _, _, _, _)
walk_mp(m, cur, prev, btf, seen) ==
    IF cur = NULL \/ cur >= btf THEN [k |-> "end", b |-> cur, prev |-> prev]
    ELSE IF cur \in seen THEN [k |-> "hang", b |-> cur, prev |-> prev]
    ELSE IF ~OkNext(m, cur) THEN [k |-> "ub", b |-> cur, prev |-> prev]
    ELSE walk_mp(m, RdNext(m, cur), cur, btf, seen \cup {cur})

\* lines 226-249: insert block_to_free before current_block, merge it with the
\* next block and the previous block into it when they are contiguous
insert_mp(m, fl, btf, cur, prev) ==
    LET m1 == WrNext(m, btf, cur)
        m2 == IF prev # NULL THEN WrNext(m1, prev, btf) ELSE m1
        fl2 == IF prev # NULL THEN fl ELSE btf
        nx == RdNext(m2, btf)
        withnext == nx # NULL /\ btf + SizeofBlock + RdSize(m2, btf) = nx
        m3 == IF withnext
              THEN WrNext(WrSize(m2, btf, RdSize(m2, btf) + SizeofBlock + RdSize(m2, nx)),
                          btf, RdNext(m2, nx))
              ELSE m2
        withprev == prev # NULL /\ prev + SizeofBlock + RdSize(m3, prev) = btf
        m4 == IF withprev
              THEN WrNext(WrSize(m3, prev, RdSize(m3, prev) + SizeofBlock + RdSize(m3, btf)),
                          prev, RdNext(m3, btf))
              ELSE m3
    IN  IF \/ ~HdrMapped(m, btf)
           \/ (prev # NULL /\ ~HdrMapped(m, prev))
           \/ (nx # NULL /\ ~OkSize(m2, btf))
           \/ (withnext /\ (~OkSize(m2, nx) \/ ~OkNext(m2, nx)))
           \/ (prev # NULL /\ ~OkSize(m3, prev))
           \/ (withprev /\ (~OkSize(m3, btf) \/ ~OkNext(m3, btf)))
        THEN Fail("ub", m, fl)
        ELSE Ret(m4, fl2, NULL)

\* lines 204-250
mem_free_mp(m, fl, block) ==
    IF block = NULL THEN Ret(m, fl, NULL)
    ELSE LET btf == block - SizeofBlock
         IN  IF ~OkFree(m, btf) THEN Fail("ub", m, fl)
             ELSE IF RdFree(m, btf) # 0 THEN Ret(m, fl, NULL)
             ELSE LET m1 == WrFree(m, btf, 1)
                      w == walk_mp(m1, fl, NULL, btf, {})
                  IN  CASE w.k = "hang" -> Fail("hung", m, fl)
                        [] w.k = "ub" -> Fail("ub", m, fl)
                        [] w.k = "end" -> insert_mp(m1, fl, btf, w.b, w.prev)

InitMp ==
    \E c \in MxPoolSizes :
        LET i == mem_init_mp(c)
        IN  /\ mem = i.m
            /\ memory_pool = i.pool
            /\ header_pool = i.hdr
            /\ free_list = i.fl
            /\ capacity = i.cap
            /\ live = {}
            /\ stale = NULL
            /\ status = "ok"
            /\ last = Call("init", NULL, c, NULL)
            /\ calls = 0
            /\ memory_lock = "none"
            /\ trip = <<>>
            /\ threads = <<>>

AllocMp ==
    /\ status = "ok"
    /\ \E n \in MxReqSizes :
          LET r == mem_alloc_mp(mem, free_list, memory_pool, n)
          IN  Leave(r, "alloc", NULL, n, AfterAlloc(r, n), StaleAfter(r.ret))

FreeMp ==
    /\ status = "ok"
    /\ \E p \in Held \cup {stale, NULL} :
          LET r == mem_free_mp(mem, free_list, p)
          IN  Leave(r, "free", p, 0, {l \in live : l.p # p},
                    IF p = NULL THEN stale ELSE p)

NextMp == AllocMp \/ FreeMp

SpecMp == InitMp /\ [][NextMp]_vars

\* C21: every call to mem_alloc of the metadata_pool variant returns, a pointer
\* or NULL, after any earlier mem_alloc calls: the traversal of the block list
\* is finite.
C21_AllocReturns ==
    [][(calls' = calls + 1 /\ last'.op = "alloc") => status' # "hung"]_vars

-----------------------------------------------------------------------------
(* More claims about the colocated allocator of src/memory_manager.c *)

\* the blocks reached from fl by next_block end in NULL and have strictly
\* increasing addresses
IncreasingList(m, fl) ==
    /\ Ends(m, fl, {})
    /\ LET c == Chain(m, fl, <<>>)
       IN  \A i \in 1 .. Len(c) - 1 : c[i] < c[i + 1]

\* C22: after mem_free(p) of a live allocation returns, the blocks reachable
\* from free_list are in strictly increasing address order: the list is acyclic
\* and holds every block at most once.
C22_FreeKeepsAddressOrder ==
    [][(calls' = calls + 1 /\ last'.op = "free" /\ last'.p \in Held /\ status' = "ok")
          => IncreasingList(mem', free_list')]_vars

-----------------------------------------------------------------------------
(* Claims about the list of the header-pool allocator *)

\* the data addresses of the descriptors reached from fl
LinkedData(m, fl) ==
    LET c == Chain(m, fl, <<>>)
    IN  {RdData(m, c[i]) : i \in 1 .. Len(c)}

\* the list ends in NULL and every descriptor in it is free
FreeDescriptorsOnly(m, fl) ==
    /\ Ends(m, fl, {})
    /\ LET c == Chain(m, fl, <<>>)
       IN  \A i \in 1 .. Len(c) : RdFree(m, c[i]) # 0

\* C24: after every completed mem_alloc or mem_free, every descriptor reachable
\* from free_list has is_free = 1 and the list is acyclic; the descriptor whose
\* data mem_alloc hands out is unlinked in that call and is not reachable from
\* free_list while it is allocated.
C24_ListHoldsFreeOnly ==
    [][(calls' = calls + 1 /\ last'.op \in {"alloc", "free"} /\ status' = "ok")
          => /\ FreeDescriptorsOnly(mem', free_list')
             /\ (last'.op = "alloc" /\ last'.ret # NULL)
                   => last'.ret \notin LinkedData(mem', free_list')
             /\ \A l \in live' : l.p \notin LinkedData(mem', free_list')]_vars

\* the first descriptor in list order that is free and holds n bytes, as the
\* loop of mem_alloc finds it
FirstFit(n) == scan_sm(mem, free_list, NULL, n, {})

\* C25: mem_alloc(n) with n >= 1 returns the data address of the first
\* descriptor in free-list order that is free with size_of_block >= n; it
\* returns NULL exactly when the list has no such descriptor, and then the list
\* and every descriptor are unchanged.
C25_AllocFirstFit ==
    [][(calls' = calls + 1 /\ last'.op = "alloc" /\ last'.n >= 1
                            /\ memory_lock # "destroyed")
          => /\ status' = "ok"
             /\ FirstFit(last'.n).k \in {"found", "none"}
             /\ FirstFit(last'.n).k = "found"
                   => /\ last'.ret = RdData(mem, FirstFit(last'.n).b)
                      /\ last'.ret # NULL
             /\ FirstFit(last'.n).k = "none"
                   => /\ last'.ret = NULL
                      /\ mem' = mem
                      /\ free_list' = free_list]_vars

-----------------------------------------------------------------------------
(* Reuse of freed space in the mutex-protected colocated allocator *)

\* mem_free(p) followed at once by mem_alloc(n), from the present state
FreeThenAlloc(p, n) ==
    LET f == mem_free_mx(mem, free_list, p)
    IN  IF f.st # "ok" THEN f ELSE mem_alloc_mx(f.m, f.fl, n)

\* C26: in every reachable state, for every live allocation p obtained by
\* mem_alloc(n), mem_free(p) followed at once by mem_alloc(n) returns a
\* non-null pointer.
C26_FreedSpaceComesBack ==
    status = "ok"
        => \A l \in live : FreeThenAlloc(l.p, l.n).st = "ok" => FreeThenAlloc(l.p, l.n).ret # NULL

-----------------------------------------------------------------------------
(* The search for the insertion point in mem_free of src/memory_manager.c *)

\* C27: mem_free(p) on a live allocation never dereferences a null
\* current_block: the traversal to the insertion point ends on a block, also
\* when p is the only block of the list.
C27_FreeWalkEndsOnBlock ==
    [][(calls' = calls + 1 /\ last'.op = "free" /\ last'.p \in Held)
          => status' # "null_deref"]_vars

-----------------------------------------------------------------------------
(* The linked list: src/unnamed/part_000 *)

\* struct Node { uint16_t data; Node *next; }
SizeofNode == 2 * PtrSize
OffNodeData == 0
OffNodeNext == PtrSize
DataRange == 256 * 256

\* the caller's Node *head, the cell that the Node **head of every call points to
ListHead == PoolBase - PtrSize

\* the places of the pool where mem_alloc(sizeof(Node)) can put a node
NodeSlots == {PoolBase + SizeofNode * k : k \in 0 .. MaxNodes - 1}

\* what the list sees of mem_alloc(sizeof(Node)): NULL, or a node's worth of
\* bytes that is not part of an allocation it holds
AllocOutcomes(lv) == {NULL} \cup (NodeSlots \ {l.p : l \in lv})

\* a node that is allocated; only such a node may be read or written
NodeOk(m, lv, p) == p \in {l.p : l \in lv} /\ Mapped(m, p + OffNodeData) /\ Mapped(m, p + OffNodeNext)
OkNodeNext(m, lv, p) == NodeOk(m, lv, p) /\ m[p + OffNodeNext] # Uninit
OkNodeData(m, lv, p) == NodeOk(m, lv, p) /\ m[p + OffNodeData] # Uninit
RdNodeNext(m, p) == m[p + OffNodeNext]
RdNodeData(m, p) == m[p + OffNodeData]
WrNodeNext(m, p, v) == [m EXCEPT ![p + OffNodeNext] = v]
WrNodeData(m, p, v) == [m EXCEPT ![p + OffNodeData] = v % DataRange]

\* what a call of the list leaves: the memory, the allocations held, the calls
\* it made to mem_alloc and mem_free, and its return value
LiRet(m, lv, made, r) == [st |-> "ok", m |-> m, lv |-> lv, made |-> made, ret |-> r]
LiFail(s, m, lv, made) == [st |-> s, m |-> m, lv |-> lv, made |-> made, ret |-> NULL]

Alloced(a) == Call("alloc", NULL, SizeofNode, a)
Freed(a) == Call("free", a, 0, NULL)
Hold(lv, a) == lv \cup {[p |-> a, n |-> SizeofNode]}
Drop(lv, a) == {l \in lv : l.p # a}

\* lines 10-14: mem_init(size * sizeof(Node)), *head = NULL
list_init(head, size) ==
    [a \in {head} \cup PoolAddrs(PoolBase, size * SizeofNode) |->
        IF a = head THEN NULL ELSE Uninit]

\* lines 41-46: the node whose next is NULL
RECURSIVE last_node(_, _, _, _)
last_node(m, lv, cur, seen) ==
    IF cur \in seen THEN [k |-> "hung", b |-> cur]
    ELSE IF ~OkNodeNext(m, lv, cur) THEN [k |-> "ub", b |-> cur]
    ELSE IF RdNodeNext(m, cur) = NULL THEN [k |-> "end", b |-> cur]
    ELSE last_node(m, lv, RdNodeNext(m, cur), seen \cup {cur})

\* lines 28, 60, 81: if (!new_node) return
alloc_failed_never(a) == FALSE
alloc_failed(a) == a = NULL

\* lines 23-48: a is what mem_alloc returns
list_insert(m, lv, head, data, a) ==
    IF head = NULL THEN LiRet(m, lv, <<>>, NULL)
    ELSE IF alloc_failed(a) THEN LiRet(m, lv, <<Alloced(a)>>, NULL)
    ELSE IF a = NULL THEN LiFail("null_deref", m, lv, <<Alloced(a)>>)
    ELSE LET lv1 == Hold(lv, a)
             m1 == WrNodeNext(WrNodeData(m, a, data), a, NULL)
             t == last_node(m1, lv1, m1[head], {})
         IN  IF m1[head] = NULL
             THEN LiRet([m1 EXCEPT ![head] = a], lv1, <<Alloced(a)>>, NULL)
             ELSE IF t.k # "end" THEN LiFail(t.k, m, lv, <<Alloced(a)>>)
             ELSE LiRet(WrNodeNext(m1, t.b, a), lv1, <<Alloced(a)>>, NULL)

\* lines 57-67
list_insert_after(m, lv, prev_node, data, a) ==
    IF prev_node = NULL THEN LiRet(m, lv, <<>>, NULL)
    ELSE IF alloc_failed(a) THEN LiRet(m, lv, <<Alloced(a)>>, NULL)
    ELSE IF a = NULL THEN LiFail("null_deref", m, lv, <<Alloced(a)>>)
    ELSE LET lv1 == Hold(lv, a)
             m1 == WrNodeData(m, a, data)
         IN  IF ~OkNodeNext(m1, lv1, prev_node) THEN LiFail("ub", m, lv, <<Alloced(a)>>)
             ELSE LiRet(WrNodeNext(WrNodeNext(m1, a, RdNodeNext(m1, prev_node)), prev_node, a),
                        lv1, <<Alloced(a)>>, NULL)

\* lines 98-101: the node whose next is next_node, or NULL
RECURSIVE node_before(_, _, _, _, _)
node_before(m, lv, cur, next_node, seen) ==
    IF cur = NULL THEN [k |-> "end", b |-> NULL]
    ELSE IF cur \in seen THEN [k |-> "hung", b |-> cur]
    ELSE IF ~OkNodeNext(m, lv, cur) THEN [k |-> "ub", b |-> cur]
    ELSE IF RdNodeNext(m, cur) = next_node THEN [k |-> "end", b |-> cur]
    ELSE node_before(m, lv, RdNodeNext(m, cur), next_node, seen \cup {cur})

\* lines 108-112: the node for which no place was found goes back to mem_free
not_placed_kept(m, lv, a, made) == LiRet(m, lv, made, NULL)
not_placed(m, lv, a, made) == LiRet(m, Drop(lv, a), Append(made, Freed(a)), NULL)

\* lines 77-114
list_insert_before(m, lv, head, next_node, data, a) ==
    IF head = NULL \/ next_node = NULL THEN LiRet(m, lv, <<>>, NULL)
    ELSE IF alloc_failed(a) THEN LiRet(m, lv, <<Alloced(a)>>, NULL)
    ELSE IF a = NULL THEN LiFail("null_deref", m, lv, <<Alloced(a)>>)
    ELSE LET lv1 == Hold(lv, a)
             m1 == WrNodeData(m, a, data)
             b == node_before(m1, lv1, m1[head], next_node, {})
         IN  IF m1[head] = next_node
             THEN LiRet([WrNodeNext(m1, a, m1[head]) EXCEPT ![head] = a], lv1, <<Alloced(a)>>, NULL)
             ELSE IF b.k # "end" THEN LiFail(b.k, m, lv, <<Alloced(a)>>)
             ELSE IF b.b # NULL
                  THEN LiRet(WrNodeNext(WrNodeNext(m1, a, RdNodeNext(m1, b.b)), b.b, a),
                             lv1, <<Alloced(a)>>, NULL)
             ELSE not_placed(m1, lv1, a, <<Alloced(a)>>)

\* lines 131-135 and 169-173: the first node that holds data, and the node before it
RECURSIVE node_with(_, _, _, _, _, _)
node_with(m, lv, cur, prev, data, seen) ==
    IF cur = NULL THEN [k |-> "end", b |-> NULL, prev |-> prev]
    ELSE IF cur \in seen THEN [k |-> "hung", b |-> cur, prev |-> prev]
    ELSE IF ~OkNodeData(m, lv, cur) THEN [k |-> "ub", b |-> cur, prev |-> prev]
    ELSE IF RdNodeData(m, cur) = data THEN [k |-> "end", b |-> cur, prev |-> prev]
    ELSE IF ~OkNodeNext(m, lv, cur) THEN [k |-> "ub", b |-> cur, prev |-> prev]
    ELSE node_with(m, lv, RdNodeNext(m, cur), cur, data, seen \cup {cur})

\* lines 123-153
list_delete(m, lv, head, data) ==
    IF head = NULL THEN LiRet(m, lv, <<>>, NULL)
    ELSE IF m[head] = NULL THEN LiRet(m, lv, <<>>, NULL)
    ELSE LET f == node_with(m, lv, m[head], NULL, data, {})
         IN  IF f.k # "end" THEN LiFail(f.k, m, lv, <<>>)
             ELSE IF f.b = NULL THEN LiRet(m, lv, <<>>, NULL)
             ELSE IF ~OkNodeNext(m, lv, f.b) THEN LiFail("ub", m, lv, <<>>)
             ELSE LiRet(IF f.prev # NULL
                        THEN WrNodeNext(m, f.prev, RdNodeNext(m, f.b))
                        ELSE [m EXCEPT ![head] = RdNodeNext(m, f.b)],
                        Drop(lv, f.b), <<Freed(f.b)>>, NULL)

\* lines 162-176
list_search(m, lv, head, data) ==
    IF head = NULL THEN LiRet(m, lv, <<>>, NULL)
    ELSE LET f == node_with(m, lv, m[head], NULL, data, {})
         IN  IF f.k # "end" THEN LiFail(f.k, m, lv, <<>>) ELSE LiRet(m, lv, <<>>, f.b)

\* lines 263-267
RECURSIVE count_from(_, _, _, _, _)
count_from(m, lv, cur, node_count, seen) ==
    IF cur = NULL THEN LiRet(m, lv, <<>>, node_count)
    ELSE IF cur \in seen THEN LiFail("hung", m, lv, <<>>)
    ELSE IF ~OkNodeNext(m, lv, cur) THEN LiFail("ub", m, lv, <<>>)
    ELSE count_from(m, lv, RdNodeNext(m, cur), node_count + 1, seen \cup {cur})

\* lines 255-270
list_count_nodes(m, lv, head) ==
    IF head = NULL THEN LiRet(m, lv, <<>>, 0) ELSE count_from(m, lv, m[head], 0, {})

\* lines 287-289: the allocations under which current_node->next is read: those
\* held before mem_free(temp_node)
held_at_read_after_free(lv, cur) == Drop(lv, cur)
held_at_read(lv, cur) == lv

\* lines 285-290: each node's next is read, then the node is freed
RECURSIVE cleanup_from(_, _, _, _)
cleanup_from(m, lv, cur, made) ==
    IF cur = NULL THEN LiRet(m, lv, made, NULL)
    ELSE IF Len(made) > MaxNodes THEN LiFail("hung", m, lv, made)
    ELSE IF ~OkNodeNext(m, held_at_read(lv, cur), cur) THEN LiFail("ub", m, lv, made)
    ELSE cleanup_from(m, Drop(lv, cur), RdNodeNext(m, cur), Append(made, Freed(cur)))

\* lines 278-293
list_cleanup(m, lv, head) ==
    IF head = NULL THEN LiRet(m, lv, <<>>, NULL)
    ELSE LET c == cleanup_from(m, lv, m[head], <<>>)
         IN  IF c.st # "ok" THEN c ELSE LiRet([c.m EXCEPT ![head] = NULL], c.lv, c.made, NULL)

\* the nodes of the list, from *head
RECURSIVE NodesFrom(_, _, _)
NodesFrom(m, cur, acc) ==
    IF cur = NULL \/ ~Mapped(m, cur + OffNodeNext) \/ m[cur + OffNodeNext] = Uninit
          \/ (\E i \in 1 .. Len(acc) : acc[i] = cur)
    THEN acc
    ELSE NodesFrom(m, RdNodeNext(m, cur), Append(acc, cur))

Nodes(m) == NodesFrom(m, m[ListHead], <<>>)
Reachable(m) == {Nodes(m)[i] : i \in 1 .. Len(Nodes(m))}

ListCall(op, p, n, r) == [op |-> op, p |-> p, n |-> n, ret |-> r.ret, made |-> r.made]

\* the state a call of the list leaves
LeaveLi(r, op, p, n) ==
    /\ calls < MaxListCalls
    /\ calls' = calls + 1
    /\ status' = r.st
    /\ last' = ListCall(op, p, n, r)
    /\ mem' = IF r.st = "ok" THEN r.m ELSE mem
    /\ live' = IF r.st = "ok" THEN r.lv ELSE live
    /\ UNCHANGED <<memory_pool, header_pool, free_list, capacity, stale, memory_lock, trip,
                   threads>>

InitLi ==
    /\ mem = list_init(ListHead, MaxNodes)
    /\ memory_pool = PoolBase
    /\ header_pool = NULL
    /\ free_list = NULL
    /\ capacity = MaxNodes * SizeofNode
    /\ live = {}
    /\ stale = NULL
    /\ status = "ok"
    /\ last = ListCall("list_init", ListHead, MaxNodes, LiRet(mem, {}, <<>>, NULL))
    /\ calls = 0
    /\ memory_lock = "none"
    /\ trip = <<>>
    /\ threads = <<>>

Heads == {NULL, ListHead}
DataValues == 1 .. MaxData

InsertLi ==
    /\ status = "ok"
    /\ \E head \in Heads, data \in DataValues, a \in AllocOutcomes(live) :
          LeaveLi(list_insert(mem, live, head, data, a), "list_insert", NULL, data)

InsertAfterLi ==
    /\ status = "ok"
    /\ \E prev_node \in Reachable(mem) \cup {NULL}, data \in DataValues,
          a \in AllocOutcomes(live) :
          LeaveLi(list_insert_after(mem, live, prev_node, data, a),
                  "list_insert_after", prev_node, data)

InsertBeforeLi ==
    /\ status = "ok"
    /\ \E head \in Heads, next_node \in NodeSlots \cup {NULL}, data \in DataValues,
          a \in AllocOutcomes(live) :
          LeaveLi(list_insert_before(mem, live, head, next_node, data, a),
                  "list_insert_before", next_node, data)

DeleteLi ==
    /\ status = "ok"
    /\ \E head \in Heads, data \in DataValues :
          LeaveLi(list_delete(mem, live, head, data), "list_delete", NULL, data)

CountLi ==
    /\ status = "ok"
    /\ \E head \in Heads :
          LeaveLi(list_count_nodes(mem, live, head), "list_count_nodes", head, 0)

CleanupLi ==
    /\ status = "ok"
    /\ \E head \in Heads :
          LeaveLi(list_cleanup(mem, live, head), "list_cleanup", head, 0)

NextLi == InsertLi \/ InsertAfterLi \/ InsertBeforeLi \/ DeleteLi \/ CountLi \/ CleanupLi

SpecLi == InitLi /\ [][NextLi]_vars

-----------------------------------------------------------------------------
(* Claims about the linked list *)

\* a call of the list that asked mem_alloc for a node
AskedAlloc(c) == c.made # <<>> /\ c.made[1].op = "alloc"

\* C23: list_insert, list_insert_after and list_insert_before do nothing when
\* mem_alloc returns NULL: the head and the data and next of every node are
\* unchanged, and mem_free is not called.
C23_InsertWithoutNode ==
    [][(/\ calls' = calls + 1
        /\ last'.op \in {"list_insert", "list_insert_after", "list_insert_before"}
        /\ AskedAlloc(last')
        /\ last'.made[1].ret = NULL)
          => /\ status' = "ok"
             /\ mem' = mem
             /\ live' = live
             /\ last'.made = <<Alloced(NULL)>>]_vars

\* each of the three insertions was refused a node on a list that has nodes
C23_Witness ==
    /\ status = "ok"
    /\ last.op = "list_insert_before"
    /\ last.made = <<Alloced(NULL)>>
    /\ Len(Nodes(mem)) >= 2

\* C28: list_insert_before with a next_node that is not reachable from *head
\* leaves the list unchanged and passes the node it got from mem_alloc to
\* mem_free exactly once, so the allocations held are the same before and after.
C28_InsertBeforeMissing ==
    [][(/\ calls' = calls + 1
        /\ last'.op = "list_insert_before"
        /\ last'.p \notin Reachable(mem)
        /\ AskedAlloc(last')
        /\ last'.made[1].ret # NULL)
          => /\ status' = "ok"
             /\ last'.made = <<Alloced(last'.made[1].ret), Freed(last'.made[1].ret)>>
             /\ live' = live
             /\ mem'[ListHead] = mem[ListHead]
             /\ Nodes(mem') = Nodes(mem)
             /\ \A l \in live :
                   /\ mem'[l.p + OffNodeData] = mem[l.p + OffNodeData]
                   /\ mem'[l.p + OffNodeNext] = mem[l.p + OffNodeNext]]_vars

\* list_insert_before got a node, found no place for it on a list that has
\* nodes, and gave it back
C28_Witness ==
    /\ status = "ok"
    /\ last.op = "list_insert_before"
    /\ Len(last.made) = 2
    /\ last.made[2].op = "free"
    /\ Len(Nodes(mem)) >= 2

\* C29: list_cleanup passes every node reachable from *head to mem_free exactly
\* once, reads each node's next before the node is freed, and sets *head to
\* NULL: list_count_nodes then returns 0 and a second list_cleanup calls
\* mem_free zero times.
C29_CleanupFreesEachOnce ==
    [][(calls' = calls + 1 /\ last'.op = "list_cleanup" /\ last'.p # NULL)
          => /\ status' = "ok"
             /\ last'.made = [i \in 1 .. Len(Nodes(mem)) |-> Freed(Nodes(mem)[i])]
             /\ mem'[ListHead] = NULL
             /\ list_count_nodes(mem', live', ListHead).st = "ok"
             /\ list_count_nodes(mem', live', ListHead).ret = 0
             /\ list_cleanup(mem', live', ListHead).st = "ok"
             /\ list_cleanup(mem', live', ListHead).made = <<>>]_vars

\* list_cleanup has freed a list of several nodes
C29_Witness ==
    /\ status = "ok"
    /\ last.op = "list_cleanup"
    /\ Len(last.made) >= 2
    /\ mem[ListHead] = NULL

=============================================================================
